---- MODULE Spec2Model ----
(***************************************************************************)
(* SQLite -> DynamoDB migration tool: the checkpoint store (StateManager), *)
(* the batch writer (DynamoDBManager.batch_write_items) and the migration  *)
(* coordinator (MigrationEngine).                                          *)
(*                                                                         *)
(* StoreSpec drives the public operations of one StateManager instance     *)
(* over one state file.  Spec runs the coordinator (migrate_all,           *)
(* migrate_tables, resume_migration) against a target store whose answer   *)
(* to every batch-put is chosen freely.                                    *)
(***************************************************************************)
EXTENDS Integers, Sequences, FiniteSets, TLC

VARIABLES
    current_state,  \* StateManager.current_state of the live instance
    state_file,     \* content of the checkpoint file
    db,             \* SQLiteAnalyzer.tables: table name -> record_count
    pc,             \* position of the coordinator call
    op,             \* which entry point is running
    force,          \* its force argument
    queue,          \* target tables still to be migrated by this call
    target,         \* target table being migrated
    idx,            \* i of the batch loop in _batch_write_items
    processed_items,\* processed_items of _batch_write_items
    unproc,         \* unprocessed items still to be retried one by one
    result,         \* return value of the call
    acked,          \* items the target store has acknowledged in this run
    touched,        \* target tables a batch-put was sent for in this call
    provisioned,    \* the call created or deleted a collection
    initialized,    \* the call initialized or loaded an incomplete run
    allAccepted,    \* the store fully accepted every batch-put of this call
    mixedStart,     \* the call began on a checkpoint with completed, partial and new groups
    ncalls,         \* calls that drew a fresh migration id so far
    call,           \* the last StateManager call of a direct caller
    bw,             \* the batch_write_items call of a direct caller
    ct,             \* the create_table call of a direct caller
    race,           \* two StateManager instances saving to one state file
    gmo             \* the get_migration_order call of a direct caller

storeVars == <<current_state, state_file>>
engineVars == <<db, pc, op, force, queue, target, idx, processed_items, unproc,
                result, acked, touched, provisioned, initialized, allAccepted,
                mixedStart, ncalls, bw, ct, race, gmo>>
vars == <<current_state, state_file, db, pc, op, force, queue, target, idx,
          processed_items, unproc, result, acked, touched, provisioned,
          initialized, allAccepted, mixedStart, ncalls, call, bw, ct, race, gmo>>

---------------------------------------------------------------------------
(* Bounds of the model *)

\* rows of the source database, all tables together
MaxRows == 2
\* largest count a direct caller of the store passes
MaxCount == 1
\* cap on the run's error_count
MaxErrors == 1
\* coordinator calls (process invocations) in one behaviour
MaxCalls == 1
\* config['batch_size'] of the modelled configuration
BatchSize == 1
\* largest record_count of a table the analyzer is asked to order
MaxRecordCount == 1
\* items a direct caller hands to batch_write_items
MaxItems == 2
\* rounds of a status poll before its timeout (300 s at 5 s a round in
\* the code)
MaxPolls == 3
\* pieces of the text of a state document
MaxPieces == 2

---------------------------------------------------------------------------
(* state_manager.py: MigrationStatus, TableState, MigrationState *)

NOT_STARTED == "not_started"
IN_PROGRESS == "in_progress"
COMPLETED == "completed"
FAILED == "failed"
PAUSED == "paused"

MigrationStatus == {NOT_STARTED, IN_PROGRESS, COMPLETED, FAILED, PAUSED}

\* None for current_state; a state file that does not exist
NoState == [kind |-> "none"]

\* The state file when it holds something else than a document save_state
\* wrote (kind "corrupt"), by what json.load and the two constructors of
\* load_state do with it:
\*   not_json      text that is no JSON: "invalid json", an empty file, the
\*                 beginning of a document
\*   not_object    JSON that is no object ([], 42, null)
\*   wrong_schema  an object with a key MigrationState does not have, or
\*                 without migration_id and status
\*   partial       {"migration_id": null, "status": "invalid"}
CorruptForms ==
    {"not_json", "not_object", "wrong_schema", "partial"}

CorruptDoc(form) == [kind |-> "corrupt", form |-> form]

CorruptDocs == {CorruptDoc(form) : form \in CorruptForms}

IsCorrupt(sf) == sf.kind = "corrupt"

\* migration_id null of the partial document
NullId == 0 - 1

\* None for last_error
NoError == "none"

\* None for last_processed_id (markers are positive numbers)
NoMarker == 0

TableState(record_count) ==
    [status |-> NOT_STARTED,
     total_records |-> record_count,
     migrated_records |-> 0,
     last_processed_id |-> NoMarker,
     error_count |-> 0,
     last_error |-> NoError]

RECURSIVE SumOver(_, _)
SumOver(f, S) ==
    IF S = {} THEN 0
    ELSE LET n == CHOOSE x \in S : TRUE
         IN f[n] + SumOver(f, S \ {n})

\* sum(ts.migrated_records for ts in table_states.values())
SumMigrated(ts) ==
    SumOver([n \in DOMAIN ts |-> ts[n].migrated_records], DOMAIN ts)

\* sum(1 for ts in table_states.values() if ts.is_complete)
CountComplete(ts) == Cardinality({n \in DOMAIN ts : ts[n].status = COMPLETED})

IsRun(s) == s.kind = "run"

\* is_complete answered from the groups instead of the run's status
IsCompleteByGroups(s) ==
    \A n \in DOMAIN s.table_states : s.table_states[n].status = COMPLETED

\* MigrationState.is_complete
IsComplete(s) == s.status = COMPLETED

---------------------------------------------------------------------------
(* state_manager.py: StateManager.  Every operation maps the instance's    *)
(* current_state cs and the file content sf to the pair after the call.    *)

Pair(cs, sf) == [cs |-> cs, sf |-> sf]

\* save_state that writes the document only when no file exists yet
SaveStateOnce(cs, sf) ==
    IF cs = NoState THEN Pair(cs, sf)
    ELSE Pair(cs, IF sf = NoState
                  THEN [cs EXCEPT !.last_checkpoint = TRUE] ELSE sf)

\* save_state: nothing without a current state; else the whole document is
\* written, with last_checkpoint set in the written copy only
SaveState(cs, sf) ==
    IF cs = NoState THEN Pair(cs, sf)
    ELSE Pair(cs, [cs EXCEPT !.last_checkpoint = TRUE])

\* initialize_migration that keeps the groups of the run in memory
InitializeMigrationKeepsGroups(cs, sf, migration_id, table_info) ==
    LET kept == IF cs = NoState THEN <<>> ELSE cs.table_states
        new == [kind |-> "run",
                migration_id |-> migration_id,
                status |-> IN_PROGRESS,
                total_tables |-> Cardinality(DOMAIN table_info),
                completed_tables |-> 0,
                total_records |-> SumOver(table_info, DOMAIN table_info),
                migrated_records |-> 0,
                error_count |-> 0,
                last_checkpoint |-> FALSE,
                table_states |-> [n \in DOMAIN table_info |->
                                     IF n \in DOMAIN kept THEN kept[n]
                                     ELSE TableState(table_info[n])]]
    IN SaveState(new, sf)

InitializeMigration(cs, sf, migration_id, table_info) ==
    LET new == [kind |-> "run",
                migration_id |-> migration_id,
                status |-> IN_PROGRESS,
                total_tables |-> Cardinality(DOMAIN table_info),
                completed_tables |-> 0,
                total_records |-> SumOver(table_info, DOMAIN table_info),
                migrated_records |-> 0,
                error_count |-> 0,
                last_checkpoint |-> FALSE,
                table_states |-> [n \in DOMAIN table_info |->
                                     TableState(table_info[n])]]
    IN SaveState(new, sf)

\* MigrationState(**state_data) for the partial document: every field but
\* migration_id and status takes its default
PartialState ==
    [kind |-> "run",
     migration_id |-> NullId,
     status |-> "invalid",
     total_tables |-> 0,
     completed_tables |-> 0,
     total_records |-> 0,
     migrated_records |-> 0,
     error_count |-> 0,
     last_checkpoint |-> FALSE,
     table_states |-> [n \in {} |-> TableState(0)]]

\* the try block of load_state on a file that exists: the exception that
\* leaves it ("none" when it returns) and the MigrationState it builds
ParseState(sf) ==
    IF sf.kind = "run" THEN [raised |-> "none", state |-> sf]
    ELSE CASE sf.form = "not_json" ->
                [raised |-> "JSONDecodeError", state |-> NoState]
           [] sf.form = "not_object" ->
                [raised |-> "AttributeError", state |-> NoState]
           [] sf.form = "wrong_schema" ->
                [raised |-> "TypeError", state |-> NoState]
           [] sf.form = "partial" ->
                [raised |-> "none", state |-> PartialState]

\* the exception load_state leaves with ("none" when it returns)
LoadRaises(sf) ==
    IF sf = NoState THEN "none"
    ELSE IF ParseState(sf).raised \in {"JSONDecodeError", "TypeError", "KeyError"}
    THEN "ValueError"
    ELSE ParseState(sf).raised

\* what load_state returns (NoState for None, and when it raises)
Loaded(sf) == IF sf = NoState THEN NoState ELSE ParseState(sf).state

\* load_state: None when the file does not exist, and current_state is left
\* as it was; also left as it was when the call raises; else the run built
\* from the file becomes current_state
LoadState(cs, sf) ==
    IF sf = NoState \/ LoadRaises(sf) # "none" THEN Pair(cs, sf)
    ELSE Pair(Loaded(sf), sf)

Known(cs, table_name) ==
    cs # NoState /\ table_name \in DOMAIN cs.table_states

UpdateTableProgress(cs, sf, table_name, migrated_count, last_processed_id) ==
    IF ~Known(cs, table_name) THEN Pair(cs, sf)
    ELSE LET c1 == [cs EXCEPT
                      !.table_states[table_name].migrated_records = migrated_count,
                      !.table_states[table_name].last_processed_id =
                          IF last_processed_id # NoMarker
                          THEN last_processed_id ELSE @]
             c2 == [c1 EXCEPT !.migrated_records = SumMigrated(c1.table_states)]
         IN SaveState(c2, sf)

\* start_table_migration as it would be if it made an entry for a name that
\* is no group of the run
StartTableMigrationCreatesGroup(cs, sf, table_name) ==
    IF cs = NoState THEN Pair(cs, sf)
    ELSE LET ts == [n \in DOMAIN cs.table_states \cup {table_name} |->
                       IF n \in DOMAIN cs.table_states
                       THEN cs.table_states[n] ELSE TableState(0)]
         IN SaveState([cs EXCEPT
                         !.table_states =
                             [ts EXCEPT ![table_name].status = IN_PROGRESS]], sf)

StartTableMigration(cs, sf, table_name) ==
    IF ~Known(cs, table_name) THEN Pair(cs, sf)
    ELSE SaveState([cs EXCEPT !.table_states[table_name].status = IN_PROGRESS], sf)

\* complete_migration that leaves migrated_records as the updates left it
CompleteMigrationKeepsCount(cs, sf) ==
    IF cs = NoState THEN Pair(cs, sf)
    ELSE SaveState([cs EXCEPT !.status = COMPLETED], sf)

\* complete_migration
CompleteMigration(cs, sf) ==
    IF cs = NoState THEN Pair(cs, sf)
    ELSE SaveState([cs EXCEPT !.status = COMPLETED,
                              !.migrated_records = cs.total_records], sf)

\* complete_table_migration as it would be without the check of the
\* completed count
CompleteTableMigrationLeavesRun(cs, sf, table_name) ==
    IF ~Known(cs, table_name) THEN Pair(cs, sf)
    ELSE LET c1 == [cs EXCEPT
                      !.table_states[table_name].status = COMPLETED,
                      !.table_states[table_name].migrated_records =
                          cs.table_states[table_name].total_records]
             c2 == [c1 EXCEPT !.completed_tables = CountComplete(c1.table_states)]
         IN SaveState(c2, sf)

CompleteTableMigration(cs, sf, table_name) ==
    IF ~Known(cs, table_name) THEN Pair(cs, sf)
    ELSE LET c1 == [cs EXCEPT
                      !.table_states[table_name].status = COMPLETED,
                      !.table_states[table_name].migrated_records =
                          cs.table_states[table_name].total_records]
             c2 == [c1 EXCEPT !.completed_tables = CountComplete(c1.table_states)]
             r == IF c2.completed_tables = c2.total_tables
                  THEN CompleteMigration(c2, sf)
                  ELSE Pair(c2, sf)
         IN SaveState(r.cs, r.sf)

\* record_error as it would be if it promoted the run to FAILED
RecordErrorMarksFailed(cs, sf, table_name, error_message) ==
    IF cs = NoState THEN Pair(cs, sf)
    ELSE LET c1 == [cs EXCEPT !.error_count = @ + 1, !.status = FAILED]
             c2 == IF table_name \in DOMAIN c1.table_states
                   THEN [c1 EXCEPT
                           !.table_states[table_name].error_count = @ + 1,
                           !.table_states[table_name].last_error = error_message]
                   ELSE c1
         IN SaveState(c2, sf)

RecordError(cs, sf, table_name, error_message) ==
    IF cs = NoState THEN Pair(cs, sf)
    ELSE LET c1 == [cs EXCEPT !.error_count = @ + 1]
             c2 == IF table_name \in DOMAIN c1.table_states
                   THEN [c1 EXCEPT
                           !.table_states[table_name].error_count = @ + 1,
                           !.table_states[table_name].last_error = error_message]
                   ELSE c1
         IN SaveState(c2, sf)

\* has_incomplete_migration that answers True for every run not COMPLETED
HasIncompleteMigrationNotCompleted(sf) ==
    IF Loaded(sf) = NoState THEN FALSE
    ELSE Loaded(sf).status # COMPLETED

\* has_incomplete_migration: the value returned (the load is LoadState)
HasIncompleteMigration(sf) ==
    IF Loaded(sf) = NoState THEN FALSE ELSE Loaded(sf).status = IN_PROGRESS

\* get_resume_info: the entries of incomplete_tables ({} stands for the
\* empty dictionary the method returns without a run or for a complete run)
GetResumeInfo(sf) ==
    LET state == Loaded(sf)
    IN IF state = NoState THEN {}
       ELSE IF IsComplete(state) THEN {}
       ELSE {[table_name |-> n,
              status |-> state.table_states[n].status,
              migrated_records |-> state.table_states[n].migrated_records,
              total_records |-> state.table_states[n].total_records,
              last_processed_id |-> state.table_states[n].last_processed_id] :
                n \in {m \in DOMAIN state.table_states :
                          state.table_states[m].status # COMPLETED}}

\* TableState.progress_percentage and MigrationState.progress_percentage,
\* in whole percent
ProgressPercentage(total_records, migrated_records) ==
    IF total_records = 0 THEN 0
    ELSE (migrated_records * 100) \div total_records

\* get_migration_status: the report of the run load_state returns
GetMigrationStatus(sf) ==
    LET state == Loaded(sf)
    IN IF state = NoState
       THEN [overall_status |-> NOT_STARTED,
             overall_progress |-> 0,
             total_tables |-> 0,
             completed_tables |-> 0,
             total_records |-> 0,
             migrated_records |-> 0,
             table_progress |-> <<>>]
       ELSE [overall_status |-> state.status,
             overall_progress |->
                 ProgressPercentage(state.total_records,
                                    state.migrated_records),
             total_tables |-> state.total_tables,
             completed_tables |-> state.completed_tables,
             total_records |-> state.total_records,
             migrated_records |-> state.migrated_records,
             table_progress |->
                 [n \in DOMAIN state.table_states |->
                     [status |-> state.table_states[n].status,
                      progress |->
                          ProgressPercentage(
                              state.table_states[n].total_records,
                              state.table_states[n].migrated_records),
                      total |-> state.table_states[n].total_records,
                      migrated |-> state.table_states[n].migrated_records,
                      errors |-> state.table_states[n].error_count]]]

\* the table_name of every entry of incomplete_tables
IncompleteTables(sf) == {e.table_name : e \in GetResumeInfo(sf)}

\* reset_migration_state that removes the file and keeps the run in memory
ResetKeepsMemory(cs, sf) == Pair(cs, NoState)

\* reset_migration_state: the file is removed, current_state is None
ResetMigrationState(cs, sf) == Pair(NoState, NoState)

PauseMigration(cs, sf) ==
    IF cs = NoState THEN Pair(cs, sf)
    ELSE SaveState([cs EXCEPT !.status = PAUSED], sf)

ResumeMigration(cs, sf) ==
    IF cs # NoState /\ cs.status = PAUSED
    THEN SaveState([cs EXCEPT !.status = IN_PROGRESS], sf)
    ELSE Pair(cs, sf)

\* the instance and the file after an operation returned r
Apply(r) ==
    /\ current_state' = r.cs
    /\ state_file' = r.sf

---------------------------------------------------------------------------
(* dynamodb_manager.py: batch_write_items and its retry loop *)

\* max_retries of _execute_batch_write_with_retry
MaxRetries == 3
\* DynamoDB's limit of items per batch_write_item request
DynamoLimit == 25
\* backoff base after unprocessed items, in tenths of a second
UnprocessedBaseDelay == 1
\* backoff base after throttling, in tenths of a second
ThrottleBaseDelay == 5

Min(a, b) == IF a < b THEN a ELSE b

\* An item is [tbl, k, lvl]: item k of target table tbl, lvl counting how
\* many times _format_item_for_dynamodb has been applied to it (0: the
\* transformer's dictionary, 1: a well-formed DynamoDB item).
FormatItemForDynamodb(item) == [item EXCEPT !.lvl = @ + 1]

\* What the store answers to one batch_write_item call: it leaves the
\* requested items whose k is in unp unprocessed ("put"), or raises a
\* throttling ClientError, another ClientError, or a non-ClientError.
Responses(ks) ==
    {[kind |-> "put", unp |-> U] : U \in SUBSET ks}
        \cup {[kind |-> c, unp |-> {}] : c \in {"throttle", "error", "raise"}}

EmptyLog == [acked |-> {}, calls |-> 0, waits |-> <<>>, requests |-> <<>>]

WriteResult(success, unprocessed, raised, log) ==
    [success |-> success, unprocessed |-> unprocessed, raised |-> raised,
     log |-> log]

\* the retry loop as it would be if a retry formatted the items it sends
\* once more
RECURSIVE RetryLoopReformats(_, _, _, _)
RetryLoopReformats(request_items, attempt, resp, log) ==
    LET r == resp[attempt]
        sent == [log EXCEPT !.calls = @ + 1,
                            !.requests = Append(@, request_items)]
        Left(it) == it.k \in r.unp
        unprocessed == SelectSeq(request_items, Left)
        taken == {request_items[i] : i \in {j \in DOMAIN request_items :
                                              ~Left(request_items[j])}}
        put == [sent EXCEPT !.acked = @ \cup taken]
        Again(req) == [n \in 1..Len(req) |-> FormatItemForDynamodb(req[n])]
    IN CASE r.kind = "put" ->
              IF unprocessed = <<>> THEN WriteResult(TRUE, <<>>, FALSE, put)
              ELSE IF attempt < MaxRetries
              THEN RetryLoopReformats(Again(unprocessed), attempt + 1, resp,
                             [put EXCEPT !.waits =
                                 Append(@, (2 ^ attempt) * UnprocessedBaseDelay)])
              ELSE WriteResult(TRUE, unprocessed, FALSE, put)
         [] r.kind = "throttle" ->
              IF attempt < MaxRetries
              THEN RetryLoopReformats(Again(request_items), attempt + 1, resp,
                             [sent EXCEPT !.waits =
                                 Append(@, (2 ^ attempt) * ThrottleBaseDelay)])
              ELSE WriteResult(FALSE, <<>>, FALSE, sent)
         [] r.kind = "error" ->
              IF attempt = MaxRetries
              THEN WriteResult(FALSE, <<>>, FALSE, sent)
              ELSE RetryLoopReformats(request_items, attempt + 1, resp, sent)
         [] OTHER -> WriteResult(FALSE, <<>>, TRUE, sent)

RECURSIVE RetryLoop(_, _, _, _)
RetryLoop(request_items, attempt, resp, log) ==
    LET r == resp[attempt]
        sent == [log EXCEPT !.calls = @ + 1,
                            !.requests = Append(@, request_items)]
        Left(it) == it.k \in r.unp
        unprocessed == SelectSeq(request_items, Left)
        taken == {request_items[i] : i \in {j \in DOMAIN request_items :
                                              ~Left(request_items[j])}}
        put == [sent EXCEPT !.acked = @ \cup taken]
    IN CASE r.kind = "put" ->
              IF unprocessed = <<>> THEN WriteResult(TRUE, <<>>, FALSE, put)
              ELSE IF attempt < MaxRetries
              THEN RetryLoop(unprocessed, attempt + 1, resp,
                             [put EXCEPT !.waits =
                                 Append(@, (2 ^ attempt) * UnprocessedBaseDelay)])
              ELSE WriteResult(TRUE, unprocessed, FALSE, put)
         [] r.kind = "throttle" ->
              IF attempt < MaxRetries
              THEN RetryLoop(request_items, attempt + 1, resp,
                             [sent EXCEPT !.waits =
                                 Append(@, (2 ^ attempt) * ThrottleBaseDelay)])
              ELSE WriteResult(FALSE, <<>>, FALSE, sent)
         [] r.kind = "error" ->
              IF attempt = MaxRetries
              THEN WriteResult(FALSE, <<>>, FALSE, sent)
              ELSE RetryLoop(request_items, attempt + 1, resp, sent)
         [] OTHER -> WriteResult(FALSE, <<>>, TRUE, sent)

\* _execute_batch_write_with_retry that makes its one call and no retry
ExecuteBatchWriteOnce(request_items, resp) ==
    RetryLoop(request_items, MaxRetries,
              [a \in 0..MaxRetries |-> resp[0]], EmptyLog)

\* _execute_batch_write_with_retry; resp[attempt] is the store's answer to
\* the call of that attempt
ExecuteBatchWriteWithRetry(request_items, resp) ==
    RetryLoop(request_items, 0, resp, EmptyLog)

\* batch_size of batch_write_items
ChunkSize == Min(DynamoLimit, BatchSize)

NumChunks(items) == (Len(items) + ChunkSize - 1) \div ChunkSize

JoinLogs(a, b) ==
    [acked |-> a.acked \cup b.acked,
     calls |-> a.calls + b.calls,
     waits |-> a.waits \o b.waits,
     requests |-> a.requests \o b.requests]

RECURSIVE ChunkLoop(_, _, _, _, _)
ChunkLoop(items, i, resps, unprocessed_items, log) ==
    IF i >= Len(items)
    THEN WriteResult(TRUE, unprocessed_items, FALSE, log)
    ELSE LET batch == SubSeq(items, i + 1, Min(i + ChunkSize, Len(items)))
             request_items == [j \in 1..Len(batch) |->
                                  FormatItemForDynamodb(batch[j])]
             r == ExecuteBatchWriteWithRetry(request_items,
                                             resps[(i \div ChunkSize) + 1])
             both == JoinLogs(log, r.log)
         IN IF r.raised THEN WriteResult(FALSE, items, TRUE, both)
            ELSE IF ~r.success
            THEN WriteResult(FALSE, unprocessed_items \o r.unprocessed,
                             FALSE, both)
            ELSE ChunkLoop(items, i + ChunkSize, resps,
                           unprocessed_items \o r.unprocessed, both)

\* batch_write_items; resps[c] answers the calls made for chunk c
\* batch_write_items without the split: the whole list in one request
BatchWriteItemsInOneRequest(items, resps) ==
    IF items = <<>> THEN WriteResult(TRUE, <<>>, FALSE, EmptyLog)
    ELSE LET r == ExecuteBatchWriteWithRetry(
                      [j \in 1..Len(items) |-> FormatItemForDynamodb(items[j])],
                      resps[1])
         IN IF r.raised THEN WriteResult(FALSE, items, TRUE, r.log) ELSE r

BatchWriteItems(items, resps) ==
    IF items = <<>> THEN WriteResult(TRUE, <<>>, FALSE, EmptyLog)
    ELSE ChunkLoop(items, 0, resps, <<>>, EmptyLog)

Keys(items) == {items[i].k : i \in DOMAIN items}

\* every way the store can answer the calls of batch_write_items(items)
StoreAnswers(items) ==
    [1..NumChunks(items) -> [0..MaxRetries -> Responses(Keys(items))]]

\* the items of a write the store acknowledged as well-formed items
Delivered(r) == {<<it.tbl, it.k>> : it \in {a \in r.log.acked : a.lvl = 1}}

\* the one call made for each chunk of items left nothing unprocessed
FullyAccepted(items, r) ==
    /\ r.success
    /\ r.unprocessed = <<>>
    /\ r.log.calls = NumChunks(items)

\* no batch_write_items call of a direct caller
NoWrite ==
    [phase |-> "none", items |-> <<>>, resps |-> <<>>,
     r |-> WriteResult(FALSE, <<>>, FALSE, EmptyLog)]

\* no create_table call of a direct caller
NoCreate ==
    [pc |-> "none", status |-> "absent", existed |-> FALSE,
     force_recreate |-> FALSE, polls |-> 0, result |-> FALSE,
     deletes |-> 0, creates |-> 0, delete_failed |-> FALSE,
     deletion_seen |-> FALSE, deletion_timeout |-> FALSE,
     active_seen |-> FALSE, active_timeout |-> FALSE]

\* no instances saving side by side
NoRace == [phase |-> "none"]

\* no get_migration_order call of a direct caller
NoOrder == [phase |-> "none"]

---------------------------------------------------------------------------
(* Inputs *)

\* table names of the source database and of the checkpoint's groups
TableUniverse == {"Customer", "Invoice", "Employee", "employee_data"}

\* table name a direct caller of the store passes: a group of its runs
\* that name Employee, and no group of the others
CallerNames == {"Employee"}

RowCounts == 0..MaxRows

\* record counts a direct caller of the store passes
CallerCounts == 0..MaxCount

\* table_info dictionaries a direct caller passes to initialize_migration:
\* no table, Employee alone, or Employee and an empty Invoice table
CallerTableInfos ==
    {[n \in {} |-> 0]}
    \cup {[n \in {"Employee"} |-> c] : c \in CallerCounts}
    \cup {[n \in {"Employee", "Invoice"} |->
              IF n = "Employee" THEN c ELSE 0] : c \in CallerCounts}

\* last_processed_id values a direct caller passes
CallerMarkers == {NoMarker, 1}

\* migration_id values a direct caller passes to initialize_migration
CallerIds == {1, 2}

ErrorMessages == {"boom"}

\* no StateManager call of a direct caller yet
NoCall ==
    [name |-> "none", out |-> "none", prior |-> "none", migration_id |-> 0,
     table_info |-> <<>>]

\* the coordinator is not running
EngineIdle ==
    /\ pc = "idle"
    /\ op = "none"
    /\ force = FALSE
    /\ queue = <<>>
    /\ target = "none"
    /\ idx = 0
    /\ processed_items = 0
    /\ unproc = <<>>
    /\ result = "none"
    /\ acked = {}
    /\ touched = {}
    /\ provisioned = FALSE
    /\ initialized = FALSE
    /\ allAccepted = TRUE
    /\ mixedStart = FALSE

---------------------------------------------------------------------------
(* migration_engine.py: MigrationEngine *)

\* the order migrate_all walks the target tables in
AllTargets == <<"music_catalog", "customer_data", "playlist_data",
                "employee_data">>

ValidTables == {AllTargets[i] : i \in DOMAIN AllTargets}

\* self.table_mapping
TableMapping(target_table) ==
    CASE target_table = "music_catalog" ->
            <<"Artist", "Album", "Track", "Genre", "MediaType">>
      [] target_table = "customer_data" ->
            <<"Customer", "Invoice", "InvoiceLine">>
      [] target_table = "playlist_data" ->
            <<"Playlist", "PlaylistTrack", "Track">>
      [] target_table = "employee_data" -> <<"Employee">>

Range(seq) == {seq[i] : i \in DOMAIN seq}

\* data_transformer.py: the source tables whose rows become one item each
ItemTables(target_table) ==
    CASE target_table = "music_catalog" -> {"Artist", "Album", "Track"}
      [] target_table = "customer_data" -> {"Customer", "Invoice"}
      [] target_table = "playlist_data" -> {"Playlist", "PlaylistTrack"}
      [] target_table = "employee_data" -> {"Employee"}

\* transformed_items of _migrate_target_table: one item per row of the
\* item tables that are loaded, i.e. that the analyzer found in the database
TransformedItems(target_table, tables) ==
    LET loaded == Range(TableMapping(target_table)) \cap DOMAIN tables
        from == ItemTables(target_table) \cap loaded
        n == SumOver([t \in from |-> tables[t]], from)
    IN [i \in 1..n |-> [tbl |-> target_table, k |-> i, lvl |-> 0]]

\* data_transformer.py: the order in which the item tables of a target
\* give their items
ItemTableOrder(target_table) ==
    CASE target_table = "music_catalog" -> <<"Artist", "Album", "Track">>
      [] target_table = "customer_data" -> <<"Customer", "Invoice">>
      [] target_table = "playlist_data" -> <<"Playlist", "PlaylistTrack">>
      [] target_table = "employee_data" -> <<"Employee">>

\* rows of source table n that are loaded
RowsOf(tables, n) == IF n \in DOMAIN tables THEN tables[n] ELSE 0

\* the source table whose row became item i of the transformed items,
\* counting from table j of order
RECURSIVE SourceFrom(_, _, _, _)
SourceFrom(order, j, i, tables) ==
    IF j >= Len(order) \/ i <= RowsOf(tables, order[j]) THEN order[j]
    ELSE SourceFrom(order, j + 1, i - RowsOf(tables, order[j]), tables)

SourceOfItem(target_table, i, tables) ==
    SourceFrom(ItemTableOrder(target_table), 1, i, tables)

\* table_info of migrate_tables: the mapped source tables the analyzer found
SelectedTableInfo(table_names, tables) ==
    LET wanted == UNION {Range(TableMapping(table_names[i])) :
                           i \in DOMAIN table_names}
    IN [t \in wanted \cap DOMAIN tables |-> tables[t]]

\* target_tables_to_resume of resume_migration
TargetTablesToResume(incomplete) ==
    {t \in ValidTables : Range(TableMapping(t)) \cap incomplete # {}}

RECURSIVE Orders(_)
Orders(S) ==
    IF S = {} THEN {<<>>}
    ELSE UNION {{<<x>> \o rest : rest \in Orders(S \ {x})} : x \in S}

\* table_names arguments of migrate_tables
Selections ==
    {<<"employee_data">>, <<"customer_data", "employee_data">>,
     <<"employee_data", "bogus">>}

\* the tables the analyzer finds, with their record counts
Databases ==
    {d \in UNION {[S -> RowCounts] : S \in SUBSET TableUniverse} :
        SumOver(d, DOMAIN d) <= MaxRows}

\* a checkpoint of an interrupted run: a group COMPLETED, one group
\* IN_PROGRESS part of the way, and every other group (one at least)
\* NOT_STARTED
MixedCheckpoint(s) ==
    /\ IsRun(s)
    /\ s.status = IN_PROGRESS
    /\ LET ts == s.table_states
           partial == {n \in DOMAIN ts :
                         /\ ts[n].status = IN_PROGRESS
                         /\ 0 < ts[n].migrated_records
                         /\ ts[n].migrated_records < ts[n].total_records}
       IN /\ Cardinality(partial) = 1
          /\ \E n \in DOMAIN ts : ts[n].status = COMPLETED
          /\ \E n \in DOMAIN ts : ts[n].status = NOT_STARTED
          /\ \A n \in DOMAIN ts \ partial :
                ts[n].status \in {COMPLETED, NOT_STARTED}

CanRecordError(cs) == IF cs = NoState THEN TRUE ELSE cs.error_count < MaxErrors

Begin(name, f) ==
    /\ pc = "idle"
    /\ ncalls < MaxCalls
    /\ ncalls' = ncalls + 1
    /\ op' = name
    /\ force' = f
    /\ touched' = {}
    /\ allAccepted' = TRUE
    /\ mixedStart' = MixedCheckpoint(state_file)
    /\ target' = "none"
    /\ idx' = 0
    /\ processed_items' = 0
    /\ unproc' = <<>>
    /\ UNCHANGED <<db, call, bw, ct, race, gmo>>

\* a return that lets the loop over the target tables go on after a failure
ReturnGoesOn(value) ==
    /\ pc' = IF value THEN "done" ELSE "next"
    /\ result' = IF value THEN "True" ELSE "False"

\* the call returns value (result holds "True" or "False")
Return(value) ==
    /\ pc' = "done"
    /\ result' = IF value THEN "True" ELSE "False"

\* migrate_all up to the loop over the target tables
MigrateAll ==
    \E f \in BOOLEAN :
      /\ Begin("migrate_all", f)
      /\ LET ld == LoadState(current_state, state_file)
         IN IF LoadRaises(state_file) # "none"
            THEN \* has_incomplete_migration raises: current_migration_id
                 \* is not set yet, nothing is recorded
                 /\ Apply(ld)
                 /\ Return(FALSE)
                 /\ UNCHANGED <<queue, acked, provisioned, initialized>>
            ELSE IF HasIncompleteMigration(state_file) /\ ~f
            THEN /\ Apply(ld)
                 /\ Return(FALSE)
                 /\ UNCHANGED <<queue, acked, provisioned, initialized>>
            ELSE \/ \* analyze_database raises
                    /\ CanRecordError(ld.cs)
                    /\ Apply(RecordError(ld.cs, ld.sf, "migration", "boom"))
                    /\ Return(FALSE)
                    /\ UNCHANGED <<queue, acked, provisioned, initialized>>
                 \/ /\ Apply(InitializeMigration(ld.cs, ld.sf, ncalls + 1, db))
                    /\ initialized' = TRUE
                    /\ provisioned' = TRUE
                    /\ acked' = {}
                    /\ \E created \in BOOLEAN :
                          IF created
                          THEN /\ pc' = "next"
                               /\ queue' = AllTargets
                               /\ UNCHANGED result
                          ELSE /\ Return(FALSE)
                               /\ UNCHANGED queue

\* migrate_tables up to the loop over the selected target tables
MigrateTables ==
    \E f \in BOOLEAN, table_names \in Selections :
      /\ Begin("migrate_tables", f)
      /\ IF Range(table_names) \ ValidTables # {}
         THEN /\ Return(FALSE)
              /\ UNCHANGED <<current_state, state_file, queue, acked,
                             provisioned, initialized>>
         ELSE \/ \* analyze_database raises
                 /\ Return(FALSE)
                 /\ UNCHANGED <<current_state, state_file, queue, acked,
                                provisioned, initialized>>
              \/ /\ Apply(InitializeMigration(current_state, state_file,
                             ncalls + 1, SelectedTableInfo(table_names, db)))
                 /\ initialized' = TRUE
                 /\ provisioned' = TRUE
                 /\ acked' = {}
                 /\ \E created \in BOOLEAN :
                       IF created
                       THEN /\ pc' = "next"
                            /\ queue' = table_names
                            /\ UNCHANGED result
                       ELSE /\ Return(FALSE)
                            /\ UNCHANGED queue

\* resume_migration up to the loop over the target tables to resume
Resume ==
    /\ Begin("resume", FALSE)
    /\ UNCHANGED <<acked, provisioned>>
    /\ LET ld == LoadState(current_state, state_file)
           state == Loaded(state_file)
           incomplete == IncompleteTables(state_file)
       IN IF state = NoState
          THEN \* no state file, or load_state raises
               /\ Apply(ld)
               /\ Return(FALSE)
               /\ UNCHANGED <<queue, initialized>>
          ELSE IF IsComplete(state)
          THEN /\ Apply(ld)
               /\ Return(TRUE)
               /\ UNCHANGED <<queue, initialized>>
          ELSE /\ initialized' = TRUE
               /\ IF incomplete = {}
                  THEN /\ Apply(CompleteMigration(ld.cs, ld.sf))
                       /\ Return(TRUE)
                       /\ UNCHANGED queue
                  ELSE \/ \* analyze_database raises
                          /\ Apply(ld)
                          /\ Return(FALSE)
                          /\ UNCHANGED queue
                       \/ /\ Apply(ld)
                          /\ pc' = "next"
                          /\ UNCHANGED result
                          /\ \E order \in Orders(TargetTablesToResume(incomplete)) :
                                queue' = order

callVars == <<db, op, force, ncalls, provisioned, initialized, mixedStart,
              call, bw, ct, race, gmo>>

\* the loop is over: complete_migration and return True
Finish ==
    /\ pc = "next"
    /\ queue = <<>>
    /\ Apply(CompleteMigration(current_state, state_file))
    /\ Return(TRUE)
    /\ UNCHANGED <<callVars, queue, target, idx, processed_items, unproc,
                   acked, touched, allAccepted>>

\* _migrate_target_table up to the first batch
MigrateTargetTable ==
    /\ pc = "next"
    /\ queue # <<>>
    /\ LET target_table == Head(queue)
           transformed_items == TransformedItems(target_table, db)
       IN \/ \* loading or transforming the source rows raises
             /\ CanRecordError(current_state)
             /\ Apply(RecordError(current_state, state_file, target_table, "boom"))
             /\ Return(FALSE)
             /\ UNCHANGED <<queue, target, idx, processed_items>>
          \/ /\ transformed_items = <<>>
             /\ queue' = Tail(queue)
             /\ UNCHANGED <<current_state, state_file, pc, result, target,
                            idx, processed_items>>
          \/ /\ transformed_items # <<>>
             /\ Apply(StartTableMigration(current_state, state_file, target_table))
             /\ target' = target_table
             /\ idx' = 0
             /\ processed_items' = 0
             /\ pc' = "batch"
             /\ UNCHANGED <<queue, result>>
    /\ UNCHANGED <<callVars, unproc, acked, touched, allAccepted>>

\* the batch of the loop of _batch_write_items that starts at idx
Batch == LET items == TransformedItems(target, db)
         IN SubSeq(items, idx + 1, Min(idx + BatchSize, Len(items)))

\* the end of one round of the batch loop: count the batch, checkpoint,
\* and go on to the next batch or back to _migrate_target_table
AfterBatch ==
    LET done == processed_items + Len(Batch)
    IN /\ processed_items' = done
       /\ Apply(UpdateTableProgress(current_state, state_file, target, done,
                                    idx + Len(Batch)))
       /\ idx' = idx + BatchSize
       /\ pc' = IF idx + BatchSize >= Len(TransformedItems(target, db))
                THEN "complete" ELSE "batch"
       /\ UNCHANGED result

\* what the coordinator sees of one batch_write_items(items) call, for
\* every way the store can answer it
OutcomesOf(items) ==
    {LET r == BatchWriteItems(items, resps)
     IN [success |-> r.success,
         unprocessed |-> r.unprocessed,
         delivered |-> Delivered(r),
         accepted |-> FullyAccepted(items, r)] :
        resps \in StoreAnswers(items)}

\* the item lists the coordinator hands to batch_write_items: a batch of
\* transformed items, or one unprocessed item as the store returned it
ItemRun(t, first, len, lvl) ==
    [i \in 1..len |-> [tbl |-> t, k |-> first + i - 1, lvl |-> lvl]]

\* the most items a target table gets from the databases considered
MostItems(t) == IF ItemTables(t) \cap TableUniverse = {} THEN 0 ELSE MaxRows

WrittenLists ==
    UNION {{ItemRun(t, first, len, 0) :
               first \in 1..MostItems(t), len \in 1..BatchSize}
           \cup {ItemRun(t, first, 1, 1) : first \in 1..MostItems(t)} :
           t \in ValidTables}

\* OutcomesOf, tabulated
OutcomeTable == {<<items, OutcomesOf(items)>> : items \in WrittenLists}

WriteOutcomes(items) ==
    (CHOOSE e \in OutcomeTable : e[1] = items)[2]

\* one round of the batch loop up to the handling of unprocessed items
WriteBatch ==
    /\ pc = "batch"
    /\ \E r \in WriteOutcomes(Batch) :
          /\ acked' = acked \cup r.delivered
          /\ allAccepted' = (allAccepted /\ r.accepted)
          /\ IF ~r.success
             THEN /\ Return(FALSE)
                  /\ UNCHANGED <<current_state, state_file, idx,
                                 processed_items, unproc>>
             ELSE IF r.unprocessed # <<>>
             THEN /\ unproc' = r.unprocessed
                  /\ pc' = "retry"
                  /\ UNCHANGED <<current_state, state_file, idx,
                                 processed_items, result>>
             ELSE /\ AfterBatch
                  /\ UNCHANGED unproc
    /\ touched' = touched \cup {target}
    /\ UNCHANGED <<callVars, queue, target>>

\* the individual write of the next unprocessed item; its outcome is
\* only logged
RetryUnprocessed ==
    /\ pc = "retry"
    /\ \E r \in WriteOutcomes(<<Head(unproc)>>) :
          /\ acked' = acked \cup r.delivered
          /\ allAccepted' = FALSE
    /\ unproc' = Tail(unproc)
    /\ IF Tail(unproc) = <<>>
       THEN AfterBatch
       ELSE UNCHANGED <<current_state, state_file, idx, processed_items,
                        pc, result>>
    /\ UNCHANGED <<callVars, queue, target, touched>>

\* back in _migrate_target_table after a successful _batch_write_items
CompleteTarget ==
    /\ pc = "complete"
    /\ Apply(CompleteTableMigration(current_state, state_file, target))
    /\ queue' = Tail(queue)
    /\ pc' = "next"
    /\ UNCHANGED <<callVars, target, idx, processed_items, unproc, result,
                   acked, touched, allAccepted>>

\* the process ends, after the call returned or killed in the middle of it
Exit ==
    /\ pc # "idle"
    /\ current_state' = NoState
    /\ pc' = "idle"
    /\ op' = "none"
    /\ force' = FALSE
    /\ queue' = <<>>
    /\ target' = "none"
    /\ idx' = 0
    /\ processed_items' = 0
    /\ unproc' = <<>>
    /\ result' = "none"
    /\ touched' = {}
    /\ provisioned' = FALSE
    /\ initialized' = FALSE
    /\ allAccepted' = TRUE
    /\ mixedStart' = FALSE
    /\ UNCHANGED <<state_file, db, acked, ncalls, call, bw, ct, race, gmo>>

Next ==
    \/ MigrateAll
    \/ MigrateTables
    \/ Resume
    \/ Finish
    \/ MigrateTargetTable
    \/ WriteBatch
    \/ RetryUnprocessed
    \/ CompleteTarget
    \/ Exit

\* A checkpoint an earlier use of the store left behind: the groups in done
\* were started, written and completed, the group part (if any) was started
\* and, when it holds two records or more, checkpointed at one record.
RECURSIVE CompleteAll(_, _)
CompleteAll(p, S) ==
    IF S = {} THEN p
    ELSE LET n == CHOOSE x \in S : TRUE
             total == p.cs.table_states[n].total_records
             a == StartTableMigration(p.cs, p.sf, n)
             b == UpdateTableProgress(a.cs, a.sf, n, total, total)
             c == CompleteTableMigration(b.cs, b.sf, n)
         IN CompleteAll(c, S \ {n})

PriorRun(tables, done, part) ==
    LET i == InitializeMigration(NoState, NoState, 0, tables)
        d == CompleteAll(i, done)
        s == StartTableMigration(d.cs, d.sf, part)
    IN IF part \in DOMAIN tables /\ tables[part] >= 2
       THEN UpdateTableProgress(s.cs, s.sf, part, 1, 1)
       ELSE s

\* the checkpoint a migrate_all that succeeded left behind: the run was
\* initialized and complete_migration marked it COMPLETED
FinishedRun(tables) ==
    LET i == InitializeMigration(NoState, NoState, 0, tables)
    IN CompleteMigration(i.cs, i.sf)

\* also: no file, and a file that holds no document of save_state
PriorCheckpoints(tables) ==
    {NoState} \cup CorruptDocs \cup {FinishedRun(tables).sf} \cup
    UNION {{PriorRun(tables, done, part).sf :
               part \in ((DOMAIN tables \ done) \cup {"none"})} :
           done \in SUBSET DOMAIN tables}

Init ==
    /\ db \in Databases
    /\ state_file \in PriorCheckpoints(db)
    /\ current_state = NoState
    /\ ncalls = 0
    /\ call = NoCall
    /\ bw = NoWrite
    /\ ct = NoCreate
    /\ race = NoRace
    /\ gmo = NoOrder
    /\ EngineIdle

Spec == Init /\ [][Next]_vars

---------------------------------------------------------------------------
(* StoreSpec: one caller drives the StateManager API directly *)

StoreInit ==
    /\ current_state = NoState
    /\ state_file = NoState
    /\ db = <<>>
    /\ ncalls = 0
    /\ call = NoCall
    /\ bw = NoWrite
    /\ ct = NoCreate
    /\ race = NoRace
    /\ gmo = NoOrder
    /\ EngineIdle

\* what is at the state file's path
FileClass(sf) ==
    IF sf = NoState THEN "absent"
    ELSE IF IsCorrupt(sf) THEN "corrupt" ELSE "run"

\* the call name left with out (an exception or what stands for the value
\* returned); prior is kept for initialize_migration and
\* reset_migration_state: what the file held when the call began;
\* migration_id and table_info are the arguments of initialize_migration
CalledWith(name, out, migration_id, table_info) ==
    call' = [name |-> name, out |-> out,
             prior |-> IF name \in {"initialize_migration",
                                    "reset_migration_state"}
                       THEN FileClass(state_file) ELSE "none",
             migration_id |-> migration_id,
             table_info |-> table_info]

Called(name, out) == CalledWith(name, out, 0, <<>>)

\* the operations that change the run and save it, initialize_migration
\* apart; their calls are recorded under one name
Mutation == "mutation"

\* a mutation that found its run (and its table) went on to save_state
Outcome(found) == IF found THEN "saved" ELSE "ignored"

\* what load_state and has_incomplete_migration leave
\* with: the exception, or value when they return
LoadOutcome(sf, value) ==
    IF LoadRaises(sf) # "none" THEN LoadRaises(sf) ELSE value

SMInitialize ==
    /\ \E migration_id \in CallerIds, table_info \in CallerTableInfos :
          /\ Apply(InitializeMigration(current_state, state_file,
                                       migration_id, table_info))
          /\ CalledWith("initialize_migration", "saved",
                        migration_id, table_info)
    /\ UNCHANGED engineVars

SMLoad ==
    /\ Apply(LoadState(current_state, state_file))
    /\ Called("load_state",
              LoadOutcome(state_file,
                          IF state_file = NoState THEN "None" ELSE "state"))
    /\ UNCHANGED engineVars

\* has_incomplete_migration called by a direct caller (cli.py resume)
SMHasIncomplete ==
    /\ Apply(LoadState(current_state, state_file))
    /\ Called("has_incomplete_migration",
              LoadOutcome(state_file,
                          IF HasIncompleteMigration(state_file)
                          THEN "True" ELSE "False"))
    /\ UNCHANGED engineVars

\* get_resume_info called by a direct caller; what it returns is
\* GetResumeInfo(state_file)
SMGetResumeInfo ==
    /\ Apply(LoadState(current_state, state_file))
    /\ Called("get_resume_info", LoadOutcome(state_file, "info"))
    /\ UNCHANGED engineVars

SMGetMigrationStatus ==
    /\ Apply(LoadState(current_state, state_file))
    /\ Called("get_migration_status", LoadOutcome(state_file, "status"))
    /\ UNCHANGED engineVars

\* a new StateManager instance over the same file
SMNewInstance ==
    /\ current_state' = NoState
    /\ UNCHANGED state_file
    /\ Called("__init__", "none")
    /\ UNCHANGED engineVars

SMStartTable ==
    /\ \E n \in CallerNames :
          /\ Apply(StartTableMigration(current_state, state_file, n))
          /\ Called(Mutation, Outcome(Known(current_state, n)))
    /\ UNCHANGED engineVars

SMUpdateProgress ==
    /\ \E n \in CallerNames, c \in CallerCounts, m \in CallerMarkers :
          /\ Apply(UpdateTableProgress(current_state, state_file, n, c, m))
          /\ Called(Mutation, Outcome(Known(current_state, n)))
    /\ UNCHANGED engineVars

SMCompleteTable ==
    /\ \E n \in CallerNames :
          /\ Apply(CompleteTableMigration(current_state, state_file, n))
          /\ Called(Mutation, Outcome(Known(current_state, n)))
    /\ UNCHANGED engineVars

SMCompleteMigration ==
    /\ Apply(CompleteMigration(current_state, state_file))
    /\ Called(Mutation, Outcome(current_state # NoState))
    /\ UNCHANGED engineVars

SMRecordError ==
    /\ CanRecordError(current_state)
    /\ \E n \in CallerNames, m \in ErrorMessages :
          Apply(RecordError(current_state, state_file, n, m))
    /\ Called(Mutation, Outcome(current_state # NoState))
    /\ UNCHANGED engineVars

SMReset ==
    /\ Apply(ResetMigrationState(current_state, state_file))
    /\ Called("reset_migration_state", "none")
    /\ UNCHANGED engineVars

SMPause ==
    /\ Apply(PauseMigration(current_state, state_file))
    /\ Called(Mutation, Outcome(current_state # NoState))
    /\ UNCHANGED engineVars

SMResume ==
    /\ Apply(ResumeMigration(current_state, state_file))
    /\ Called(Mutation, Outcome(IF current_state = NoState THEN FALSE
                      ELSE current_state.status = PAUSED))
    /\ UNCHANGED engineVars

\* something else than the store writes over the state file
SMCorrupt ==
    /\ ~IsCorrupt(state_file)
    /\ \E doc \in CorruptDocs : state_file' = doc
    /\ Called("external_write", "none")
    /\ UNCHANGED current_state
    /\ UNCHANGED engineVars

\* where save_state may be killed: before open(state_file, 'w'), after it
\* emptied the file and before json.dump's output is all in it, or after
\* the document is written
KillPoints == {"before_open", "in_write", "after_write"}

\* the process is killed inside save_state; the instance dies with it
SMKilledInSave ==
    /\ current_state # NoState
    /\ \E at \in KillPoints :
          /\ state_file' =
                CASE at = "before_open" -> state_file
                  [] at = "in_write" -> CorruptDoc("not_json")
                  [] at = "after_write" ->
                        SaveState(current_state, state_file).sf
          /\ Called("save_state", at)
    /\ current_state' = NoState
    /\ UNCHANGED engineVars

StoreNext ==
    \/ SMInitialize
    \/ SMLoad
    \/ SMHasIncomplete
    \/ SMGetResumeInfo
    \/ SMNewInstance
    \/ SMStartTable
    \/ SMUpdateProgress
    \/ SMCompleteTable
    \/ SMCompleteMigration
    \/ SMRecordError
    \/ SMReset
    \/ SMPause
    \/ SMResume
    \/ SMCorrupt
    \/ SMKilledInSave

StoreSpec == StoreInit /\ [][StoreNext]_vars

\* StatusSpec: a caller takes a run through its groups and asks for the
\* status report, as the tests of get_migration_status do
StatusNext ==
    \/ SMInitialize
    \/ SMStartTable
    \/ SMUpdateProgress
    \/ SMCompleteTable
    \/ SMNewInstance
    \/ SMGetMigrationStatus

StatusSpec == StoreInit /\ [][StatusNext]_vars

\* GroupSpec: a caller takes a run through its groups by name, with names
\* that are groups of the run and names that are not (the coordinator calls
\* the store with target-table names)
GroupCallNames == {"Employee", "employee_data"}

GSStartTable ==
    /\ \E n \in GroupCallNames :
          /\ Apply(StartTableMigration(current_state, state_file, n))
          /\ CalledWith("start_table_migration",
                        Outcome(Known(current_state, n)), 0, <<>>)
    /\ UNCHANGED engineVars

GSUpdateProgress ==
    /\ \E n \in GroupCallNames, c \in CallerCounts, m \in CallerMarkers :
          /\ Apply(UpdateTableProgress(current_state, state_file, n, c, m))
          /\ CalledWith("update_table_progress",
                        Outcome(Known(current_state, n)), 0, <<>>)
    /\ UNCHANGED engineVars

GSCompleteTable ==
    /\ \E n \in GroupCallNames :
          /\ Apply(CompleteTableMigration(current_state, state_file, n))
          /\ CalledWith("complete_table_migration",
                        Outcome(Known(current_state, n)), 0, <<>>)
    /\ UNCHANGED engineVars

GSRecordError ==
    /\ CanRecordError(current_state)
    /\ \E n \in GroupCallNames, m \in ErrorMessages :
          Apply(RecordError(current_state, state_file, n, m))
    /\ CalledWith("record_error", Outcome(current_state # NoState), 0, <<>>)
    /\ UNCHANGED engineVars

GroupNext ==
    \/ SMInitialize
    \/ SMNewInstance
    \/ GSStartTable
    \/ GSUpdateProgress
    \/ GSCompleteTable
    \/ GSRecordError
    \/ SMCompleteMigration
    \/ SMPause

GroupSpec == StoreInit /\ [][GroupNext]_vars

---------------------------------------------------------------------------
(* WriterSpec: one caller calls batch_write_items directly *)

\* the item lists of a direct caller
WriterItems == {ItemRun("employee_data", 1, len, 0) : len \in 0..MaxItems}

\* the answer that leaves nothing unprocessed
Accepted == [kind |-> "put", unp |-> {}]

\* an answer after which _execute_batch_write_with_retry makes no other call
Terminal(resp) == resp = Accepted \/ resp.kind = "raise"

\* the keys of the request of attempt a: request_items = unprocessed after
\* a partial answer, the same request after throttling or an error
RECURSIVE Requested(_, _, _)
Requested(s, a, ks) ==
    IF a = 0 THEN ks
    ELSE IF s[a - 1].kind = "put" THEN s[a - 1].unp
    ELSE Requested(s, a - 1, ks)

\* the answers to the calls of one chunk; those after a terminal answer are
\* never asked for and are left Accepted, and the store leaves unprocessed
\* only items of the request it answers
ChunkAnswers(ks) ==
    {s \in [0..MaxRetries -> Responses(ks)] :
        /\ \A a \in 0..(MaxRetries - 1) : Terminal(s[a]) => s[a + 1] = Accepted
        /\ \A a \in 0..MaxRetries :
              s[a].kind = "put" => s[a].unp \subseteq Requested(s, a, ks)}

\* the positions in items of chunk c of batch_write_items
ChunkRange(items, c) ==
    (((c - 1) * ChunkSize) + 1)..Min(c * ChunkSize, Len(items))

KeysOfChunk(items, c) == {items[i].k : i \in ChunkRange(items, c)}

RECURSIVE AnswersFrom(_, _)
AnswersFrom(items, c) ==
    IF c > NumChunks(items) THEN {<<>>}
    ELSE {<<s>> \o rest : s \in ChunkAnswers(KeysOfChunk(items, c)),
                          rest \in AnswersFrom(items, c + 1)}

\* every way the store can answer the calls of batch_write_items(items),
\* chunk by chunk
WriterAnswers(items) == AnswersFrom(items, 1)

WriterIdle ==
    /\ current_state = NoState
    /\ state_file = NoState
    /\ db = <<>>
    /\ ncalls = 0
    /\ call = NoCall
    /\ EngineIdle

WriterInit ==
    /\ \E items \in WriterItems :
          \E resps \in WriterAnswers(items) :
             bw = [NoWrite EXCEPT !.phase = "called",
                                  !.items = items,
                                  !.resps = resps]
    /\ ct = NoCreate
    /\ race = NoRace
    /\ gmo = NoOrder
    /\ WriterIdle

\* batch_write_items(table_name, items) runs and returns
BWBatchWriteItems ==
    /\ bw.phase = "called"
    /\ bw' = [bw EXCEPT !.phase = "returned",
                        !.r = BatchWriteItems(bw.items, bw.resps)]
    /\ UNCHANGED <<storeVars, call>>
    /\ UNCHANGED <<db, pc, op, force, queue, target, idx, processed_items,
                   unproc, result, acked, touched, provisioned, initialized,
                   allAccepted, mixedStart, ncalls, ct, race, gmo>>

WriterNext == BWBatchWriteItems

WriterSpec == WriterInit /\ [][WriterNext]_vars

---------------------------------------------------------------------------
(* TableSpec: one caller runs create_table(schema, force_recreate) against *)
(* a store that may fail any call and that finishes deletions and          *)
(* creations in its own time                                               *)

\* TableStatus of the table in the store; "absent" when describe_table
\* raises ResourceNotFoundException
TableStatuses == {"absent", "ACTIVE", "DELETING", "CREATING"}

\* the ways a call to the store ends: it answers, or raises a ClientError
\* that is no ResourceNotFoundException and no ResourceInUseException
StoreOutcomes == {"ok", "client_error"}

\* create_table returns: the remaining fields keep what the call did
CreateTableReturns(c, value) == [c EXCEPT !.pc = "done", !.result = value]

TableInit ==
    /\ \E status \in {"absent", "ACTIVE"}, force_recreate \in BOOLEAN :
          ct = [NoCreate EXCEPT !.pc = "table_exists",
                                !.status = status,
                                !.existed = (status # "absent"),
                                !.force_recreate = force_recreate]
    /\ bw = NoWrite
    /\ race = NoRace
    /\ gmo = NoOrder
    /\ WriterIdle

TableFrame ==
    /\ UNCHANGED <<storeVars, call, bw, race, gmo>>
    /\ UNCHANGED <<db, pc, op, force, queue, target, idx, processed_items,
                   unproc, result, acked, touched, provisioned, initialized,
                   allAccepted, mixedStart, ncalls>>

\* if self.table_exists(table_name): a ClientError other than
\* ResourceNotFoundException leaves table_exists and create_table returns
\* False; an existing table is kept and reported unless force_recreate
CTTableExists ==
    /\ ct.pc = "table_exists"
    /\ \E out \in StoreOutcomes :
          ct' = IF out = "client_error" THEN CreateTableReturns(ct, FALSE)
                ELSE IF ct.status = "absent"
                THEN [ct EXCEPT !.pc = "create_table"]
                ELSE IF ct.force_recreate
                THEN [ct EXCEPT !.pc = "delete_table"]
                ELSE CreateTableReturns(ct, TRUE)
    /\ TableFrame

\* self.delete_table(table_name): the store starts the deletion, or the
\* call fails and delete_table returns False, which create_table drops
CTDeleteTable ==
    /\ ct.pc = "delete_table"
    /\ \E out \in StoreOutcomes :
          ct' = [ct EXCEPT !.pc = "wait_for_table_deletion",
                           !.polls = 0,
                           !.deletes = @ + 1,
                           !.delete_failed = (out = "client_error"),
                           !.status = IF out = "ok" /\ @ # "absent"
                                      THEN "DELETING" ELSE @]
    /\ TableFrame

\* one round of wait_for_table_deletion: the time is up, or describe_table
\* finds no table, or fails, or finds the table and the loop sleeps;
\* create_table drops what wait_for_table_deletion returns
CTWaitForTableDeletion ==
    /\ ct.pc = "wait_for_table_deletion"
    /\ IF ct.polls >= MaxPolls
       THEN ct' = [ct EXCEPT !.pc = "create_table", !.deletion_timeout = TRUE]
       ELSE \E out \in StoreOutcomes :
              ct' = IF out = "client_error"
                    THEN [ct EXCEPT !.pc = "create_table"]
                    ELSE IF ct.status = "absent"
                    THEN [ct EXCEPT !.pc = "create_table",
                                    !.deletion_seen = TRUE]
                    ELSE [ct EXCEPT !.polls = @ + 1]
    /\ TableFrame

\* self.dynamodb.create_table(**table_definition): the store raises
\* ResourceInUseException for a table that is there, and create_table
\* returns True; any other ClientError makes it return False
CTCreateTable ==
    /\ ct.pc = "create_table"
    /\ \E out \in StoreOutcomes :
          ct' = IF out = "client_error" THEN CreateTableReturns(ct, FALSE)
                ELSE IF ct.status # "absent"
                THEN CreateTableReturns([ct EXCEPT !.creates = @ + 1], TRUE)
                ELSE [ct EXCEPT !.pc = "wait_for_table_active",
                                !.polls = 0,
                                !.creates = @ + 1,
                                !.status = "CREATING"]
    /\ TableFrame

\* one round of wait_for_table_active: the time is up, or describe_table
\* fails, or the table is ACTIVE, or it is not yet and the loop sleeps;
\* create_table returns True whatever wait_for_table_active returns
CTWaitForTableActive ==
    /\ ct.pc = "wait_for_table_active"
    /\ IF ct.polls >= MaxPolls
       THEN ct' = CreateTableReturns([ct EXCEPT !.active_timeout = TRUE], TRUE)
       ELSE \E out \in StoreOutcomes :
              ct' = IF out = "client_error" \/ ct.status = "absent"
                    THEN CreateTableReturns(ct, TRUE)
                    ELSE IF ct.status = "ACTIVE"
                    THEN CreateTableReturns([ct EXCEPT !.active_seen = TRUE], TRUE)
                    ELSE [ct EXCEPT !.polls = @ + 1]
    /\ TableFrame

\* the store finishes a deletion or a creation it has started
StoreSettles ==
    /\ ct.pc \notin {"none", "done"}
    /\ ct.status \in {"DELETING", "CREATING"}
    /\ ct' = [ct EXCEPT !.status = IF @ = "DELETING" THEN "absent"
                                   ELSE "ACTIVE"]
    /\ TableFrame

TableNext ==
    \/ CTTableExists
    \/ CTDeleteTable
    \/ CTWaitForTableDeletion
    \/ CTCreateTable
    \/ CTWaitForTableActive
    \/ StoreSettles

TableSpec == TableInit /\ [][TableNext]_vars

---------------------------------------------------------------------------
(* RaceSpec: two StateManager instances of one state file each run        *)
(* save_state once, with nothing to order their file operations           *)

Instances == {1, 2}

\* a piece of the text json.dump produces for the run of instance w: the
\* k-th stretch of it, of one fixed size
Piece(w, k) == <<w, k>>

\* a stretch no instance wrote: the zero bytes between the end of a file
\* and a write behind it
Hole == Piece(0, 0)

\* the document the file held before: the run initialize_migration saved
OldText == <<Piece(0, 1)>>

\* the text of the run of instance w, len pieces long
TextOf(w, len) == [k \in 1..len |-> Piece(w, k)]

\* f.write of text at offset off of a file opened without O_APPEND: the
\* pieces land at off + 1.. over what is there, behind zero bytes if the
\* file ends before off
WriteAt(file, off, text) ==
    [i \in 1..(IF Len(file) > off + Len(text) THEN Len(file)
               ELSE off + Len(text)) |->
        IF i > off /\ i <= off + Len(text) THEN text[i - off]
        ELSE IF i <= Len(file) THEN file[i]
        ELSE Hole]

RaceInit ==
    /\ \E len \in [Instances -> 1..MaxPieces] :
          race = [phase |-> "running",
                  len |-> len,
                  pc |-> [w \in Instances |-> "save_state"],
                  off |-> [w \in Instances |-> 0],
                  file |-> OldText,
                  last |-> 0]
    /\ bw = NoWrite
    /\ ct = NoCreate
    /\ gmo = NoOrder
    /\ WriterIdle

RaceFrame ==
    /\ UNCHANGED <<storeVars, call, bw, ct, gmo>>
    /\ UNCHANGED <<db, pc, op, force, queue, target, idx, processed_items,
                   unproc, result, acked, touched, provisioned, initialized,
                   allAccepted, mixedStart, ncalls>>

\* open(self.state_file, 'w') of instance w: the file is cut to nothing
\* and the instance's offset is 0
SaveOpen(w) ==
    /\ race.phase = "running"
    /\ race.pc[w] = "save_state"
    /\ race' = [race EXCEPT !.pc[w] = "json.dump",
                            !.off[w] = 0,
                            !.file = <<>>]
    /\ RaceFrame

\* json.dump(state_dict, f, indent=2) of instance w hands the next n
\* pieces of its text to the file: all of it in one write for a text no
\* longer than the buffer, in several for a longer one; last is the
\* instance whose text was the last to be all in the file
SaveWrite(w) ==
    /\ race.phase = "running"
    /\ race.pc[w] = "json.dump"
    /\ race.off[w] < race.len[w]
    /\ \E n \in 1..(race.len[w] - race.off[w]) :
          race' = [race EXCEPT
                      !.off[w] = @ + n,
                      !.last = IF race.off[w] + n = race.len[w] THEN w ELSE @,
                      !.file = WriteAt(@, race.off[w],
                                   SubSeq(TextOf(w, race.len[w]),
                                          race.off[w] + 1, race.off[w] + n))]
    /\ RaceFrame

\* the with block of instance w ends: the file is closed and save_state
\* returns
SaveClose(w) ==
    /\ race.phase = "running"
    /\ race.pc[w] = "json.dump"
    /\ race.off[w] = race.len[w]
    /\ race' = [race EXCEPT !.pc[w] = "returned"]
    /\ RaceFrame

RaceNext ==
    \E w \in Instances : SaveOpen(w) \/ SaveWrite(w) \/ SaveClose(w)

RaceSpec == RaceInit /\ [][RaceNext]_vars

---------------------------------------------------------------------------
(* OrderSpec: one caller calls get_migration_order on an analyzed database *)

\* the tables a database may have or refer to
OrderUniverse == {"Customer", "Employee", "Invoice"}

\* column names as the pieces between their dots: Id, and Invoice.Id
PlainKey == <<"Id">>
DottedKey == <<"Invoice", "Id">>

\* the names the key column of table t may have
KeyColumns(t) == IF t = "Invoice" THEN {PlainKey, DottedKey} ELSE {PlainKey}

\* f"{referenced_table}.{referenced_column}" of _analyze_table, as the
\* pieces between the dots of the string
FormatReference(referenced_table, referenced_column) ==
    <<referenced_table>> \o referenced_column

\* fk_reference.split('.')
SplitReference(fk_reference) == fk_reference

\* referenced_table, referenced_column = fk_reference.split('.') raises
\* ValueError unless the split gives two pieces
Unpacks(fk_reference) == Len(SplitReference(fk_reference)) = 2

\* get_table_relationships raises on a reference that does not unpack
RelationshipsRaise(foreign_keys) ==
    \E t \in DOMAIN foreign_keys : \E fk \in foreign_keys[t] : ~Unpacks(fk)

\* relationships[table_name]['references'] of get_table_relationships
GetTableRelationships(foreign_keys) ==
    [t \in DOMAIN foreign_keys |->
        {SplitReference(fk)[1] : fk \in foreign_keys[t]}]

\* get_migration_order's ready_tables as it would be without the check of
\* the references
ReadyTablesAll(relationships, remaining_tables) == remaining_tables

\* ready_tables of one round of get_migration_order, before the fallback
ReadyTables(relationships, remaining_tables) ==
    {t \in remaining_tables : relationships[t] \cap remaining_tables = {}}

\* ready_tables.sort(key=record_count) over a list built in the iteration
\* order of a set: every order of R that ascends in record_count
AscendingOrders(R, tables) ==
    {o \in Orders(R) :
        \A i \in 1..Len(o) : \A j \in i..Len(o) : tables[o[i]] <= tables[o[j]]}

\* the databases: analyzed tables with their record counts, the foreign
\* keys of each (to analyzed tables, to itself, to tables that are not
\* there), and the name of Invoice's key column
OrderInit ==
    /\ \E S \in SUBSET OrderUniverse :
         \E tables \in [S -> 0..MaxRecordCount],
            edges \in SUBSET (S \X OrderUniverse),
            key \in KeyColumns("Invoice") :
            gmo = [phase |-> "called",
                   tables |-> tables,
                   foreign_keys |->
                       [t \in S |->
                           {FormatReference(e[2], IF e[2] = "Invoice"
                                                  THEN key ELSE PlainKey) :
                              e \in {d \in edges : d[1] = t}}],
                   relationships |-> <<>>,
                   ordered_tables |-> <<>>,
                   remaining_tables |-> {},
                   rounds |-> <<>>]
    /\ bw = NoWrite
    /\ ct = NoCreate
    /\ race = NoRace
    /\ WriterIdle

OrderFrame ==
    /\ UNCHANGED <<storeVars, call, bw, ct, race>>
    /\ UNCHANGED <<db, pc, op, force, queue, target, idx, processed_items,
                   unproc, result, acked, touched, provisioned, initialized,
                   allAccepted, mixedStart, ncalls>>

\* get_migration_order up to its loop
GMOCall ==
    /\ gmo.phase = "called"
    /\ gmo' = IF RelationshipsRaise(gmo.foreign_keys)
              THEN [gmo EXCEPT !.phase = "ValueError"]
              ELSE [gmo EXCEPT
                      !.phase = "loop",
                      !.relationships = GetTableRelationships(gmo.foreign_keys),
                      !.remaining_tables = DOMAIN gmo.tables]
    /\ OrderFrame

\* one round of the while loop
GMORound ==
    /\ gmo.phase = "loop"
    /\ gmo.remaining_tables # {}
    /\ LET ready == ReadyTables(gmo.relationships, gmo.remaining_tables)
           fallback == ready = {}
           ready_tables == IF fallback THEN gmo.remaining_tables ELSE ready
       IN \E sorted \in AscendingOrders(ready_tables, gmo.tables) :
             gmo' = [gmo EXCEPT
                       !.ordered_tables = @ \o sorted,
                       !.remaining_tables = @ \ Range(sorted),
                       !.rounds = Append(@, [emitted |-> sorted,
                                             fallback |-> fallback])]
    /\ OrderFrame

\* return ordered_tables
GMOReturn ==
    /\ gmo.phase = "loop"
    /\ gmo.remaining_tables = {}
    /\ gmo' = [gmo EXCEPT !.phase = "returned"]
    /\ OrderFrame

OrderNext == GMOCall \/ GMORound \/ GMOReturn

\* the call is one thread of control: it goes on while it has a next step
OrderSpec == OrderInit /\ [][OrderNext]_vars /\ WF_vars(OrderNext)

---------------------------------------------------------------------------
(* Properties *)

Snapshots == {current_state, state_file}

GroupsOf(s) == DOMAIN s.table_states

\* the store acknowledged every item the transformer produced for target t
ItemsAcknowledged(t) ==
    \A i \in DOMAIN TransformedItems(t, db) : <<t, i>> \in acked

AllGroupsCompleted(s) ==
    \A n \in GroupsOf(s) : s.table_states[n].status = COMPLETED

\* C1: a group or the run is COMPLETED in the checkpoint file (and the call
\* reports success) only if the target store acknowledged, at least once,
\* every item produced for the target tables the call wrote.
C1_CompletedOnlyAfterAcknowledgement ==
    /\ \A t \in touched :
          (/\ IsRun(state_file)
           /\ t \in GroupsOf(state_file)
           /\ state_file.table_states[t].status = COMPLETED)
              => ItemsAcknowledged(t)
    /\ (/\ pc = "done"
        /\ result = "True"
        /\ IsRun(state_file)
        /\ IsComplete(state_file))
           => \A t \in touched : ItemsAcknowledged(t)

\* C2: in memory and on disk, a run whose status is COMPLETED has only
\* COMPLETED groups.
C2_CompletedRunHasOnlyCompletedGroups ==
    \A s \in Snapshots : (IsRun(s) /\ IsComplete(s)) => AllGroupsCompleted(s)

\* C3: a resume that starts on a checkpoint with completed, partial and
\* not-started groups and succeeds, the store accepting every write, leaves
\* the run COMPLETED and every group COMPLETED with migrated_records equal
\* to total_records.
C3_ResumeCompletesEveryGroup ==
    (/\ pc = "done"
     /\ op = "resume"
     /\ mixedStart
     /\ allAccepted
     /\ result = "True")
        => /\ IsRun(state_file)
           /\ IsComplete(state_file)
           /\ \A n \in GroupsOf(state_file) :
                 /\ state_file.table_states[n].status = COMPLETED
                 /\ state_file.table_states[n].migrated_records =
                       state_file.table_states[n].total_records

\* C4: no group ever has migrated_records above its total_records, whatever
\* count the coordinator passes to update_table_progress.
C4_MigratedAtMostTotal ==
    \A s \in Snapshots :
        IsRun(s) => \A n \in GroupsOf(s) :
                       s.table_states[n].migrated_records
                           <= s.table_states[n].total_records

\* C5: in every persisted snapshot the run's migrated_records is the sum of
\* its groups' migrated_records.
C5_RunCountIsSumOfGroups ==
    IsRun(state_file) =>
        state_file.migrated_records = SumMigrated(state_file.table_states)

\* C6: a COMPLETED group has migrated_records equal to total_records, and no
\* later operation on it breaks that.
C6_CompletedGroupIsFull ==
    \A s \in Snapshots :
        IsRun(s) => \A n \in GroupsOf(s) :
                       s.table_states[n].status = COMPLETED
                           => s.table_states[n].migrated_records
                                 = s.table_states[n].total_records

\* C7: in every persisted snapshot a group whose migrated_records has reached
\* its total_records is COMPLETED.
C7_FullGroupIsCompleted ==
    IsRun(state_file) =>
        \A n \in GroupsOf(state_file) :
            state_file.table_states[n].migrated_records
                  = state_file.table_states[n].total_records
               => state_file.table_states[n].status = COMPLETED

\* the edges the status of a run or of a group may follow
StatusEdges ==
    {<<NOT_STARTED, IN_PROGRESS>>, <<IN_PROGRESS, COMPLETED>>,
     <<IN_PROGRESS, FAILED>>, <<IN_PROGRESS, PAUSED>>,
     <<PAUSED, IN_PROGRESS>>}

EdgeAllowed(a, b) == a = b \/ <<a, b>> \in StatusEdges

\* the statuses of one run, before (s) and after (t) a step, follow the edges
FollowsEdges(s, t) ==
    (IsRun(s) /\ IsRun(t) /\ s.migration_id = t.migration_id)
        => /\ EdgeAllowed(s.status, t.status)
           /\ \A n \in GroupsOf(s) \cap GroupsOf(t) :
                 EdgeAllowed(s.table_states[n].status,
                             t.table_states[n].status)

\* C8: whatever the store operation, the status of the run and of each of
\* its groups changes only along NOT_STARTED -> IN_PROGRESS, IN_PROGRESS ->
\* COMPLETED | FAILED | PAUSED and PAUSED -> IN_PROGRESS.
C8_StatusFollowsEdges ==
    [][/\ FollowsEdges(current_state, current_state')
       /\ FollowsEdges(state_file, state_file')]_vars

\* C9: with an IN_PROGRESS run in the checkpoint file and force false, both
\* migrate_all and migrate_tables return failure at once: the file is left
\* as it was, no collection is created or deleted, no batch is written.
C9_StartFailsFastOnIncompleteRun ==
    [][(/\ pc = "idle"
        /\ HasIncompleteMigration(state_file)
        /\ op' \in {"migrate_all", "migrate_tables"}
        /\ ~force')
          => /\ pc' = "done"
             /\ result' = "False"
             /\ state_file' = state_file
             /\ ~provisioned'
             /\ touched' = {}]_vars

C11_LoadOfCorruptFileRaisesValueError ==
    (call.name = "load_state" /\ IsCorrupt(state_file))
        => call.out = "ValueError"

\* C12: once load_state has left with ValueError the store holds no run:
\* current_state is None, even if this instance initialized or loaded a run
\* before, so that no later mutation saves an earlier run over the file.
C12_NoRunInMemoryAfterFailedLoad ==
    (call.name = "load_state" /\ call.out = "ValueError")
        => current_state = NoState

\* C13: while the state file is present and corrupt, migrate_all and
\* migrate_tables (force or not) and resume_migration return failure and
\* leave the file's content as it was: none of them overwrites,
\* reinitializes or deletes it.
C13_CorruptFileIsLeftToReset ==
    [][(/\ pc = "idle"
        /\ IsCorrupt(state_file)
        /\ op' \in {"migrate_all", "migrate_tables", "resume"})
          => /\ pc' = "done"
             /\ result' = "False"
             /\ state_file' = state_file]_vars

\* C14: when the process is killed while save_state persists the run, the
\* state file holds either the whole previous snapshot or the whole new
\* one, never an empty or truncated document.
C14_KilledSaveLeavesWholeSnapshot ==
    [][call'.name = "save_state"
          => \/ state_file' = state_file
             \/ state_file' = SaveState(current_state, state_file).sf]_vars

\* runs a and b agree on run id, statuses, totals, migrated counts, last
\* markers, error counts and last errors (last_checkpoint is left out)
SameRun(a, b) ==
    /\ IsRun(a)
    /\ IsRun(b)
    /\ a.migration_id = b.migration_id
    /\ a.status = b.status
    /\ a.total_tables = b.total_tables
    /\ a.completed_tables = b.completed_tables
    /\ a.total_records = b.total_records
    /\ a.migrated_records = b.migrated_records
    /\ a.error_count = b.error_count
    /\ a.table_states = b.table_states

\* C15: when initialize_migration or a mutation that found its run has
\* returned, load_state of a new instance on the state file returns a run
\* equal to the instance's current_state in run id, statuses, totals,
\* migrated counts, last markers, error counts and last errors.
C15_SavedRunLoadsBackEqual ==
    (call.name \in {"initialize_migration", Mutation} /\ call.out = "saved")
        => /\ LoadRaises(state_file) = "none"
           /\ SameRun(Loaded(state_file), current_state)

\* C15 witness: a mutation returned on a run with a recorded error and a
\* last marker; the run read back differs from memory in last_checkpoint
C15_Witness ==
    /\ call.name = Mutation
    /\ call.out = "saved"
    /\ IsRun(current_state)
    /\ current_state.error_count > 0
    /\ \E n \in GroupsOf(current_state) :
          /\ current_state.table_states[n].last_processed_id # NoMarker
          /\ current_state.table_states[n].migrated_records > 0
    /\ SameRun(Loaded(state_file), current_state)
    /\ Loaded(state_file) # current_state

\* C16: initialize_migration(migration_id, table_info) returns whatever run
\* was in memory and whatever the state file held, a corrupt document
\* included, and leaves in the file a run with the given id, status
\* IN_PROGRESS, one group per name of table_info with status NOT_STARTED,
\* total_records as given and migrated_records 0, the run's total_records
\* being the sum of the sizes and its migrated_records 0.
C16_InitializeLeavesFreshRun ==
    call.name = "initialize_migration"
        => /\ IsRun(state_file)
           /\ state_file.migration_id = call.migration_id
           /\ state_file.status = IN_PROGRESS
           /\ GroupsOf(state_file) = DOMAIN call.table_info
           /\ \A n \in GroupsOf(state_file) :
                 /\ state_file.table_states[n].status = NOT_STARTED
                 /\ state_file.table_states[n].total_records
                       = call.table_info[n]
                 /\ state_file.table_states[n].migrated_records = 0
           /\ state_file.total_tables = Cardinality(DOMAIN call.table_info)
           /\ state_file.total_records
                 = SumOver(call.table_info, DOMAIN call.table_info)
           /\ state_file.migrated_records = 0
           /\ SameRun(state_file, current_state)

\* C16 witness: initialize_migration called over a corrupt file, with a
\* table of one row
C16_Witness ==
    /\ call.name = "initialize_migration"
    /\ call.prior = "corrupt"
    /\ "Employee" \in DOMAIN call.table_info
    /\ call.table_info["Employee"] = 1
    /\ IsRun(state_file)
    /\ state_file.total_records = 1
    /\ state_file.table_states["Employee"].status = NOT_STARTED

\* C17: has_incomplete_migration returns True if and only if the state file
\* holds a run whose status is IN_PROGRESS; it returns False when there is
\* no file and for a run in any other status.
C17_HasIncompleteIffInProgress ==
    call.name = "has_incomplete_migration"
        => /\ call.out = "True"
                <=> (IsRun(state_file) /\ state_file.status = IN_PROGRESS)
           /\ (\/ state_file = NoState
               \/ (IsRun(state_file) /\ state_file.status # IN_PROGRESS))
                 => call.out = "False"

\* C17 witness: has_incomplete_migration answered False on a PAUSED run
\* that has a group in progress
C17_Witness ==
    /\ call.name = "has_incomplete_migration"
    /\ call.out = "False"
    /\ IsRun(state_file)
    /\ state_file.status = PAUSED
    /\ \E n \in GroupsOf(state_file) :
          state_file.table_states[n].status = IN_PROGRESS

\* the groups of run s that are not COMPLETED, as get_resume_info lists them
OpenGroups(s) ==
    {[table_name |-> n,
      status |-> s.table_states[n].status,
      migrated_records |-> s.table_states[n].migrated_records,
      total_records |-> s.table_states[n].total_records,
      last_processed_id |-> s.table_states[n].last_processed_id] :
        n \in {m \in GroupsOf(s) : s.table_states[m].status # COMPLETED}}

\* C18: get_resume_info lists exactly the groups of the persisted run that
\* are not COMPLETED, each with its status, migrated_records, total_records
\* and last marker, also when the run itself is COMPLETED.
C18_ResumeInfoListsEveryOpenGroup ==
    (call.name = "get_resume_info" /\ call.out = "info" /\ IsRun(state_file))
        => GetResumeInfo(state_file) = OpenGroups(state_file)

\* C19: reset_migration_state, from any state, removes the state file and
\* clears current_state: load_state then returns None,
\* has_incomplete_migration False and get_resume_info nothing; and with no
\* file and no run in memory a mutation other than initialize_migration
\* writes nothing.
C19_ResetClearsFileAndMemory ==
    [][/\ call'.name = "reset_migration_state"
            => /\ current_state' = NoState
               /\ state_file' = NoState
               /\ LoadRaises(state_file') = "none"
               /\ Loaded(state_file') = NoState
               /\ ~HasIncompleteMigration(state_file')
               /\ GetResumeInfo(state_file') = {}
       /\ (/\ current_state = NoState
           /\ state_file = NoState
           /\ call'.name = Mutation)
            => /\ call'.out = "ignored"
               /\ current_state' = NoState
               /\ state_file' = NoState]_vars

\* C19 witness: reset_migration_state returned, called on a file that
\* held a run
C19_Witness ==
    /\ call.name = "reset_migration_state"
    /\ call.prior = "run"
    /\ current_state = NoState
    /\ state_file = NoState

\* C20: resume_migration returns at once when there is no state file or
\* when the run in it is COMPLETED: no write is sent to the target store,
\* no table is created, no state file is created and an existing one is
\* left as it was; for a COMPLETED run the call returns True.
C20_ResumeReturnsAtOnce ==
    [][(/\ pc = "idle"
        /\ op' = "resume"
        /\ \/ state_file = NoState
           \/ (IsRun(state_file) /\ state_file.status = COMPLETED))
          => /\ pc' = "done"
             /\ state_file' = state_file
             /\ acked' = acked
             /\ touched' = {}
             /\ queue' = <<>>
             /\ ~provisioned'
             /\ state_file # NoState => result' = "True"]_vars

\* C20 witness: resume_migration returned True on a COMPLETED run that has
\* a group not COMPLETED, having written nothing
C20_Witness ==
    /\ pc = "done"
    /\ op = "resume"
    /\ result = "True"
    /\ ~initialized
    /\ touched = {}
    /\ IsRun(state_file)
    /\ state_file.status = COMPLETED
    /\ \E n \in GroupsOf(state_file) :
          state_file.table_states[n].status # COMPLETED

\* C21: when the target store accepts every write, a migrate_all that
\* returns True leaves in the state file a COMPLETED run whose
\* migrated_records equals its total_records, the sum of the sizes of the
\* groups it was initialized with.
C21_MigrateAllEndsCompletedAndFull ==
    (/\ pc = "done"
     /\ op = "migrate_all"
     /\ allAccepted
     /\ result = "True")
        => /\ IsRun(state_file)
           /\ state_file.status = COMPLETED
           /\ state_file.migrated_records = state_file.total_records
           /\ state_file.total_records = SumOver(db, DOMAIN db)
           /\ GroupsOf(state_file) = DOMAIN db
           /\ \A n \in DOMAIN db :
                 state_file.table_states[n].total_records = db[n]

\* C21 witness: migrate_all returned True over a database of two tables
\* with a row each, the store having accepted every batch
C21_Witness ==
    /\ pc = "done"
    /\ op = "migrate_all"
    /\ allAccepted
    /\ result = "True"
    /\ Cardinality(touched) > 1
    /\ Cardinality(DOMAIN db) > 1
    /\ IsRun(state_file)
    /\ state_file.total_records = MaxRows
    /\ state_file.migrated_records = MaxRows

\* the batch-put requests batch_write_items made for chunk c of its items
RequestsOfChunk(w, c) ==
    SelectSeq(w.r.log.requests,
              LAMBDA req : req[1].k \in KeysOfChunk(w.items, c))

ChunksOf(w) == 1..NumChunks(w.items)

\* the last of the MaxRetries + 1 calls made for chunk c was throttled
ThrottledOut(w, c) ==
    /\ Len(RequestsOfChunk(w, c)) = MaxRetries + 1
    /\ w.resps[c][MaxRetries].kind = "throttle"

\* the last of the MaxRetries + 1 calls made for chunk c left items
\* unprocessed
LeftOut(w, c) ==
    /\ Len(RequestsOfChunk(w, c)) = MaxRetries + 1
    /\ w.resps[c][MaxRetries].kind = "put"
    /\ w.resps[c][MaxRetries].unp
          \cap Keys(RequestsOfChunk(w, c)[MaxRetries + 1]) # {}

\* the items of the call the store never acknowledged
Unacknowledged(w) ==
    {k \in Keys(w.items) : \A a \in w.r.log.acked : a.k # k}

\* C22: when the retries of a chunk are used up, by partial acceptance or
\* by throttling, batch_write_items returns without raising, reports
\* failure, and its list of unprocessed items holds exactly the items of
\* the call that the store never acknowledged.
C22_ExhaustedRetriesReturnUnacknowledged ==
    (/\ bw.phase = "returned"
     /\ \E c \in ChunksOf(bw) : ThrottledOut(bw, c) \/ LeftOut(bw, c))
        => /\ ~bw.r.raised
           /\ ~bw.r.success
           /\ Keys(bw.r.unprocessed) = Unacknowledged(bw)
           /\ Len(bw.r.unprocessed) = Cardinality(Unacknowledged(bw))

\* the store gave answer a of chunk c: the call of that attempt was made
Asked(w, c, a) == a < Len(RequestsOfChunk(w, c))

\* C23: when the store answers a batch-put with an error that is no
\* throttling, batch_write_items makes no other call, for that chunk or
\* for a later one, and reports failure.
C23_OtherErrorAbortsAtOnce ==
    bw.phase = "returned"
        => \A c \in ChunksOf(bw) : \A a \in 0..MaxRetries :
              (Asked(bw, c, a) /\ bw.resps[c][a].kind = "error")
                 => /\ Len(RequestsOfChunk(bw, c)) = a + 1
                    /\ \A d \in ChunksOf(bw) :
                          d > c => RequestsOfChunk(bw, d) = <<>>
                    /\ ~bw.r.success

\* answer a of chunk c left none of the items requested unprocessed
FullyAcceptedAt(w, c, a) ==
    /\ Asked(w, c, a)
    /\ w.resps[c][a].kind = "put"
    /\ w.resps[c][a].unp \cap Keys(RequestsOfChunk(w, c)[a + 1]) = {}

\* the first call of chunk c was rejected whole, by leaving every item
\* unprocessed or by throttling
RejectedWhole(w, c) ==
    \/ w.resps[c][0].kind = "throttle"
    \/ /\ w.resps[c][0].kind = "put"
       /\ KeysOfChunk(w.items, c) \subseteq w.resps[c][0].unp

\* C24: whatever the store answers, batch_write_items returns after at
\* most MaxRetries + 1 batch-put calls for each chunk, retries after
\* partial acceptance and after throttling counting together; it makes no
\* call for a chunk after one that was fully accepted; and when the first
\* call of the only chunk is rejected whole and the second is accepted, it
\* returns success, no unprocessed item, after exactly one retry.
C24_RetriesAreBoundedAndStopOnAcceptance ==
    bw.phase = "returned"
        => /\ \A c \in ChunksOf(bw) :
                 /\ Len(RequestsOfChunk(bw, c)) <= MaxRetries + 1
                 /\ \A a \in 0..MaxRetries :
                       FullyAcceptedAt(bw, c, a)
                          => Len(RequestsOfChunk(bw, c)) = a + 1
           /\ bw.r.log.calls = Len(bw.r.log.requests)
           /\ bw.r.log.calls <= NumChunks(bw.items) * (MaxRetries + 1)
           /\ (/\ NumChunks(bw.items) = 1
               /\ RejectedWhole(bw, 1)
               /\ bw.resps[1][1] = Accepted)
                 => /\ bw.r.success
                    /\ bw.r.unprocessed = <<>>
                    /\ bw.r.log.calls = 2
                    /\ Len(bw.r.log.waits) = 1

\* C24 witness: the one chunk of the call was left unprocessed whole by
\* the first call and accepted by the second
C24_Witness ==
    /\ bw.phase = "returned"
    /\ bw.items # <<>>
    /\ NumChunks(bw.items) = 1
    /\ bw.resps[1][0].kind = "put"
    /\ RejectedWhole(bw, 1)
    /\ bw.resps[1][1] = Accepted
    /\ bw.r.success
    /\ bw.r.log.calls = 2
    /\ bw.r.log.acked # {}

\* the delays a call slept, in tenths of a second, are non-decreasing
NonDecreasing(waits) ==
    \A i \in 1..(Len(waits) - 1) : waits[i] <= waits[i + 1]

\* C25: the delay slept before retry k of a chunk is baseDelay * 2^k with
\* one baseDelay, whether the retry follows partial acceptance or
\* throttling; so the delays of a chunk never decrease, and there are at
\* most MaxRetries of them.  Stated for a list of one chunk whose
\* answers are all retryable (items left unprocessed, or throttling).
C25_OneBackoffForBothCauses ==
    (/\ bw.phase = "returned"
     /\ NumChunks(bw.items) = 1
     /\ \A a \in 0..MaxRetries :
           bw.resps[1][a].kind \in {"put", "throttle"})
        => /\ Len(bw.r.log.waits) <= MaxRetries
           /\ NonDecreasing(bw.r.log.waits)
           /\ \E baseDelay \in {UnprocessedBaseDelay, ThrottleBaseDelay} :
                 \A k \in DOMAIN bw.r.log.waits :
                    bw.r.log.waits[k] = baseDelay * (2 ^ (k - 1))

\* the chunk a request of the log belongs to
ChunkOfRequest(w, req) ==
    CHOOSE c \in ChunksOf(w) : req[1].k \in KeysOfChunk(w.items, c)

\* the slice of the input list that is chunk c, as the store is sent it
SliceOfChunk(w, c) ==
    LET first == ((c - 1) * Min(BatchSize, DynamoLimit)) + 1
        last == Min(c * Min(BatchSize, DynamoLimit), Len(w.items))
    IN [j \in 1..((last - first) + 1) |->
           FormatItemForDynamodb(w.items[(first + j) - 1])]

\* the chunks a call was made for
Attempted(w) == {c \in ChunksOf(w) : RequestsOfChunk(w, c) # <<>>}

C27_CreateTableSucceedsOnlyWhenActive ==
    ct.pc = "done"
        => /\ ct.result => ct.status = "ACTIVE"
           /\ (ct.result /\ ct.existed /\ ct.force_recreate)
                 => (ct.deletion_seen /\ ct.creates = 1)
           /\ (ct.deletion_timeout \/ ct.active_timeout \/ ct.delete_failed)
                 => ~ct.result
           /\ (ct.existed /\ ~ct.force_recreate)
                 => (ct.deletes = 0 /\ ct.creates = 0)

\* both instances have returned from save_state
BothSaved == race.phase = "running" /\ \A w \in Instances : race.pc[w] = "returned"

\* C28: when two instances of one state file save side by side, the file
\* after both have returned is one whole document, the one of the
\* instance that saved last: never pieces of both, never text that does
\* not load.
C28_ConcurrentSavesLeaveTheLastDocument ==
    BothSaved => race.file = TextOf(race.last, race.len[race.last])

\* the report get_migration_status gave on the file it loaded
Report == GetMigrationStatus(state_file)

\* C29: get_migration_status reports progress 100 for every group whose
\* status is COMPLETED, a group of total_records 0 included; when every
\* group of the run is COMPLETED it reports overall_progress 100 and
\* completed_tables equal to the number of groups.
C29_CompletedGroupsReportFullProgress ==
    (call.name = "get_migration_status" /\ call.out = "status"
        /\ IsRun(state_file))
        => /\ \A n \in DOMAIN Report.table_progress :
                 Report.table_progress[n].status = COMPLETED
                    => Report.table_progress[n].progress = 100
           /\ (GroupsOf(state_file) # {} /\ AllGroupsCompleted(state_file))
                 => /\ Report.overall_progress = 100
                    /\ Report.completed_tables
                          = Cardinality(DOMAIN state_file.table_states)

\* the entries of the checkpoint s that stand for target table t: the
\* groups named as its source tables, or as t itself
EntriesOf(t, s) ==
    IF IsRun(s) THEN ({t} \cup Range(TableMapping(t))) \cap GroupsOf(s)
    ELSE {}

HasEntry(t, s, status) ==
    \E n \in EntriesOf(t, s) : s.table_states[n].status = status

\* the first batch of the target is about to be sent
BeforeFirstBatch == pc = "batch" /\ idx = 0

\* a step of migrate_all or migrate_tables
InStart == op \in {"migrate_all", "migrate_tables"}

\* the step that ends the batches of the target with success
LastBatchDone == pc = "complete" /\ pc' = "next"

\* the step that passes over a target of the checkpoint without items
EmptyTargetDone ==
    /\ pc = "next"
    /\ pc' = "next"
    /\ queue # <<>>
    /\ queue' = Tail(queue)
    /\ EntriesOf(Head(queue), state_file) # {}

\* C30: during migrate_all and migrate_tables the checkpoint entry of each
\* target is on disk as IN_PROGRESS before its first batch is sent and as
\* COMPLETED once its last batch succeeded, before the next target begins;
\* a target whose transformation yields no items ends COMPLETED too.
C30_GroupIsMarkedAroundItsBatches ==
    [][InStart =>
         ((BeforeFirstBatch => HasEntry(target, state_file, IN_PROGRESS))
          /\ (LastBatchDone => HasEntry(target, state_file', COMPLETED))
          /\ (EmptyTargetDone
                 => HasEntry(Head(queue), state_file', COMPLETED)))]_vars

\* the items of target t the store has acknowledged in this call
AckedItems(t, a) == {i \in DOMAIN TransformedItems(t, db) : <<t, i>> \in a}

\* a step of the batch loop writes a new migrated_records for group g
CountPersisted(g) ==
    /\ pc \in {"batch", "retry"}
    /\ IsRun(state_file)
    /\ IsRun(state_file')
    /\ g \in GroupsOf(state_file) \cap GroupsOf(state_file')
    /\ state_file'.table_states[g].migrated_records
          # state_file.table_states[g].migrated_records

\* C31: whenever the batch loop persists migrated_records = n for a group,
\* the store has acknowledged at least n items of the target being
\* written: the persisted count holds no item that was left unprocessed
\* and not accepted later.
C31_PersistedCountIsAcknowledged ==
    [][\A g \in TableUniverse :
          CountPersisted(g)
             => state_file'.table_states[g].migrated_records
                   <= Cardinality(AckedItems(target, acked'))]_vars

\* the step in which the target at the head of the queue, one with an
\* entry in the checkpoint, fails and the call returns False
TargetFails ==
    /\ pc \in {"next", "batch"}
    /\ queue # <<>>
    /\ EntriesOf(Head(queue), state_file) # {}
    /\ pc' = "done"
    /\ result' = "False"

\* the step records an error on entry g of the checkpoint file
ErrorRecordedOn(g) ==
    /\ IsRun(state_file)
    /\ IsRun(state_file')
    /\ g \in GroupsOf(state_file) \cap GroupsOf(state_file')
    /\ state_file'.table_states[g].error_count
          > state_file.table_states[g].error_count
    /\ state_file'.table_states[g].last_error # NoError

\* C32: when a target fails (batch_write_items reports failure, or loading
\* or transforming raises) the error is on its checkpoint entry when the
\* call returns: the entry's error_count has grown and its last_error is
\* set.
C32_FailureIsRecordedOnTheGroup ==
    [][TargetFails
          => \E g \in EntriesOf(Head(queue), state_file') :
                ErrorRecordedOn(g)]_vars

\* the step in which the target at the head of the queue fails
LoopBreaks ==
    /\ pc \in {"next", "batch"}
    /\ queue # <<>>
    /\ pc' = "done"
    /\ result' = "False"

\* the call has failed and not yet left
Failed == pc = "done" /\ result = "False"

\* C33: once a target fails during migrate_all, migrate_tables or
\* resume_migration the call is over and reports failure: the targets
\* behind the failed one have had no batch write, and from then on no
\* write is sent and the checkpoint file is not changed.
C33_FailureAbortsTheRemainingGroups ==
    [][/\ result' = "False" => pc' = "done"
       /\ LoopBreaks
             => \A i \in 2..Len(queue) : queue[i] \notin touched'
       /\ Failed
             => /\ state_file' = state_file
                /\ acked' = acked
                /\ touched' \subseteq touched
                /\ pc' = "idle"]_vars

\* a target failed in its batches with another target behind it
C33_Witness ==
    /\ Failed
    /\ Len(queue) >= 2
    /\ Head(queue) \in touched

\* the groups of the batch about to be sent: the source tables its items
\* were made from
GroupsOfBatch ==
    {SourceOfItem(target, i, db) :
        i \in (idx + 1)..Min(idx + BatchSize, Len(TransformedItems(target, db)))}

\* group g is COMPLETED in checkpoint s
GroupCompleted(s, g) ==
    IsRun(s) /\ g \in GroupsOf(s) /\ s.table_states[g].status = COMPLETED

\* the groups of checkpoint s that are not COMPLETED and that a target
\* table is made from
OpenMappedGroups(s) ==
    {g \in GroupsOf(s) :
        /\ s.table_states[g].status # COMPLETED
        /\ \E t \in ValidTables : g \in Range(TableMapping(t))}

\* C34: resume_migration on an incomplete run reprocesses exactly the
\* groups that are not COMPLETED, each from its first item: every such
\* group is in a target of the loop, each target starts at item 0, and no
\* batch holds an item of a group that is COMPLETED.
C34_ResumeRewritesOnlyOpenGroups ==
    [][op' = "resume"
         => /\ (pc = "idle" /\ pc' = "next")
                  => \A g \in OpenMappedGroups(state_file) :
                        \E i \in DOMAIN queue' :
                           g \in Range(TableMapping(queue'[i]))
            /\ (pc = "next" /\ pc' = "batch") => idx' = 0
            /\ (pc = "batch" /\ touched' # touched)
                  => \A g \in GroupsOfBatch : ~GroupCompleted(state_file, g)]_vars

\* the items of request req the store took at answer resp
TakenAt(req, resp) == {it \in Range(req) : it.k \notin resp.unp}

CompletesAGroup ==
    \E n \in GroupCallNames :
        /\ Known(current_state, n)
        /\ Apply(CompleteTableMigration(current_state, state_file, n))

\* every group of the document s is COMPLETED
EveryGroupCompleted(s) ==
    \A n \in DOMAIN s.table_states : s.table_states[n].status = COMPLETED

\* C36: after a complete_table_migration call on a group of the run, if every
\* group is COMPLETED then the run is COMPLETED in the same saved document
\* and in memory; if some group is not COMPLETED, the call leaves the run's
\* status as it was
C36_RunCompletesWithItsLastGroup ==
    [][CompletesAGroup
         => /\ state_file' # NoState
            /\ state_file'.table_states = current_state'.table_states
            /\ state_file'.status = current_state'.status
            /\ (EveryGroupCompleted(state_file')
                  => state_file'.status = COMPLETED)
            /\ (~EveryGroupCompleted(state_file')
                  => current_state'.status = current_state.status)]_vars

\* the only group of a run with an error recorded has just been completed
C36_Witness ==
    /\ call.name = "complete_table_migration"
    /\ call.out = "saved"
    /\ current_state # NoState
    /\ DOMAIN current_state.table_states = {"Employee"}
    /\ EveryGroupCompleted(current_state)
    /\ current_state.error_count > 0
    /\ current_state.status = COMPLETED
    /\ state_file = [current_state EXCEPT !.last_checkpoint = TRUE]

\* the three operations on one group
GroupOperations ==
    {"start_table_migration", "update_table_progress",
     "complete_table_migration"}

\* the step is a call of one of them that found no run or no such group
IgnoredGroupCall == call'.name \in GroupOperations /\ call'.out = "ignored"

\* the step is a call of one of them on a group of the run
SavedGroupCall == call'.name \in GroupOperations /\ call'.out = "saved"

\* the step is a record_error call on a run
RecordedError == call'.name = "record_error" /\ call'.out = "saved"

\* C38: start_table_migration, update_table_progress and
\* complete_table_migration leave the run in memory and the checkpoint file
\* as they are when no run is loaded or the name is no group of the run,
\* and make no group entry when the name is one; record_error on a run
\* adds one to the run's error_count and makes no group entry either
C38_UnknownNameChangesNothing ==
    [][/\ IgnoredGroupCall
            => (current_state' = current_state /\ state_file' = state_file)
       /\ SavedGroupCall
            => (DOMAIN current_state'.table_states
                    = DOMAIN current_state.table_states)
       /\ RecordedError
            => (/\ current_state'.error_count = current_state.error_count + 1
                /\ state_file'.error_count = current_state'.error_count
                /\ DOMAIN current_state'.table_states
                      = DOMAIN current_state.table_states)]_vars

\* an operation was called with a target-table name on a saved run that
\* has groups, and changed nothing
C38_Witness ==
    /\ call.name \in GroupOperations
    /\ call.out = "ignored"
    /\ current_state # NoState
    /\ DOMAIN current_state.table_states = {"Employee", "Invoice"}
    /\ current_state.table_states["Employee"].status = IN_PROGRESS
    /\ state_file = [current_state EXCEPT !.last_checkpoint = TRUE]

\* the foreign keys among the source tables of the modelled database: the
\* columns the transformer reads as references (Customer.SupportRepId,
\* Invoice.CustomerId)
ForeignKeys == {<<"Customer", "Employee">>, <<"Invoice", "Customer">>}

\* the source tables of the group g that the database has
SourcesOf(g) == Range(TableMapping(g)) \cap DOMAIN db

\* rows of the group g
GroupRows(g) == SumOver([t \in SourcesOf(g) |-> db[t]], SourcesOf(g))

\* a source table of g references a source table of the other group h
GroupReferences(g, h) ==
    /\ g # h
    /\ \E fk \in ForeignKeys : fk[1] \in SourcesOf(g) /\ fk[2] \in SourcesOf(h)

\* the selected groups with rows that are still waiting while the head of
\* the queue is taken
Waiting ==
    {g \in {queue[i] : i \in 2..Len(queue)} \cap ValidTables : GroupRows(g) > 0}

\* the coordinator takes up the group at the head of its queue
TakesUpGroup ==
    /\ op \in {"migrate_all", "migrate_tables"}
    /\ pc = "next"
    /\ pc' = "batch"

\* C37: a group is taken up only when no group it references by foreign key
\* is still waiting, and no waiting group free of waiting references has
\* fewer rows
C37_GroupsGoInDependencyOrder ==
    [][TakesUpGroup
         => /\ \A h \in Waiting : ~GroupReferences(target', h)
            /\ \A h \in Waiting :
                  (\A d \in Waiting : ~GroupReferences(h, d))
                      => GroupRows(target') <= GroupRows(h)]_vars

\* cli.py migrate and resume: what the command tells the user once the
\* engine call has ended with outcome ("True", "False", or "raise" for an
\* exception). The call's value is not bound to a name: the success line
\* is echoed after every call that returns, ClickException is raised from
\* the except clause alone
CommandReport(outcome) ==
    IF outcome = "raise" THEN "failure" ELSE "success"

\* a migrate or resume command whose engine call has returned
CommandReturned ==
    /\ op \in {"migrate_all", "migrate_tables", "resume"}
    /\ pc = "done"

\* C39: the migrate and resume commands report success only if the engine
\* call returned true, and report a failure when it returned false
C39_CommandReportsTheEngineResult ==
    CommandReturned
        => /\ CommandReport(result) = "success" => result = "True"
           /\ result = "False" => CommandReport(result) = "failure"

\* the tables emitted in the rounds before round r
EmittedBefore(r) == UNION {Range(gmo.rounds[q].emitted) : q \in 1..(r - 1)}

\* ordered_tables holds every analyzed table once
IsPermutation ==
    /\ Len(gmo.ordered_tables) = Cardinality(DOMAIN gmo.tables)
    /\ Range(gmo.ordered_tables) = DOMAIN gmo.tables

\* a table emitted in a round that is no cycle fallback has every analyzed
\* table it references emitted in an earlier round
ReferencesComeFirst ==
    \A r \in DOMAIN gmo.rounds :
        ~gmo.rounds[r].fallback
            => \A t \in Range(gmo.rounds[r].emitted) :
                  gmo.relationships[t] \cap DOMAIN gmo.tables
                      \subseteq EmittedBefore(r)

\* the tables of one round ascend in record count
RoundsAscend ==
    \A r \in DOMAIN gmo.rounds :
        LET o == gmo.rounds[r].emitted
        IN \A i \in 1..Len(o) : \A j \in i..Len(o) :
              gmo.tables[o[i]] <= gmo.tables[o[j]]

OrderIsSound == IsPermutation /\ ReferencesComeFirst /\ RoundsAscend

\* C40: get_migration_order returns for every foreign-key graph, and what it
\* returns is a permutation of the analyzed tables in which a table emitted
\* outside the cycle fallback comes after the round of every table it
\* references, each round ascending in record count
C40_OrderReturnsASoundPermutation ==
    /\ <>(gmo.phase = "returned")
    /\ [](gmo.phase = "returned" => OrderIsSound)

\* what holds of get_migration_order: the call ends, and when it returns,
\* which it does whenever every reference splits in two at its dot, the
\* order is as C40 describes it
OrderEndsAndIsSoundOnReturn ==
    /\ <>(gmo.phase \in {"returned", "ValueError"})
    /\ [](gmo.phase = "returned" => OrderIsSound)
    /\ [](gmo.phase = "ValueError" => RelationshipsRaise(gmo.foreign_keys))

\* a returned order with a round of ready tables, one of which references
\* the other analyzed table of that earlier round, and a cycle fallback
OrderReturnedWithBothKindsOfRound ==
    /\ gmo.phase = "returned"
    /\ \E r \in DOMAIN gmo.rounds : gmo.rounds[r].fallback
    /\ \E r \in DOMAIN gmo.rounds :
          /\ ~gmo.rounds[r].fallback
          /\ \E t \in Range(gmo.rounds[r].emitted) :
                gmo.relationships[t] \cap DOMAIN gmo.tables # {}

====
